---- MODULE Spec2Model ----
(***************************************************************************)
(* Model of the AML risk profiling engine of antiriciclaggio.py:           *)
(* RiskCalculator (section averages, totals, band), the evaluation         *)
(* handler AMLRiskApp.valuta_rischio with its enhanced-due-diligence       *)
(* dialog, and the export handler.                                         *)
(*                                                                         *)
(* Python computes every score in IEEE-754 binary64 and rounds with the    *)
(* built-in round(), which rounds the exact binary value to the requested  *)
(* number of decimals (ties to even) and returns the double nearest to     *)
(* that decimal.  The arithmetic is modelled bit-exactly: a double is a    *)
(* record [m, e] denoting m * 2^e with a 53-bit mantissa m, held as a      *)
(* little-endian sequence of 15-bit limbs.                                 *)
(***************************************************************************)
EXTENDS Integers, Sequences, FiniteSets, TLC

(***************************************************************************)
(* Natural numbers of arbitrary size: little-endian sequences of limbs in  *)
(* base 2^15, without leading zero limbs; <<>> is zero.                    *)
(***************************************************************************)
\* TLC evaluates an operator argument, and a LET definition, anew at each
\* place it is used; Only({e : v \in {arg}}) evaluates arg once and e with
\* its value.
Only(S) == CHOOSE val \in S : TRUE

LimbBits == 15

LimbBase == 32768

MantBits == 53

Limb(a, i) == IF i <= Len(a) THEN a[i] ELSE 0

BNorm(a) ==
    Only({(LET nz == {i \in 1..Len(s) : s[i] # 0}
           IN  IF nz = {} THEN <<>>
               ELSE SubSeq(s, 1, CHOOSE i \in nz : \A j \in nz : j <= i)) : s \in {a}})

BFromInt(n) ==
    Only({BNorm(<<k % LimbBase, (k \div LimbBase) % LimbBase, k \div (LimbBase * LimbBase)>>) :
            k \in {n}})

BToInt(a) == Limb(a, 1) + LimbBase * Limb(a, 2)

BAdd(a, b) ==
    Only({(LET n == IF Len(s) > Len(t) THEN Len(s) ELSE Len(t)
               carry[i \in 0..n] ==
                   IF i = 0 THEN 0
                   ELSE (Limb(s, i) + Limb(t, i) + carry[i - 1]) \div LimbBase
           IN  BNorm([i \in 1..(n + 1) |->
                        IF i <= n THEN (Limb(s, i) + Limb(t, i) + carry[i - 1]) % LimbBase
                        ELSE carry[n]])) : s \in {a}, t \in {b}})

BMulSmall(a, d) ==
    Only({(LET n == Len(s)
               carry[i \in 0..n] ==
                   IF i = 0 THEN 0 ELSE (s[i] * k + carry[i - 1]) \div LimbBase
           IN  BNorm([i \in 1..(n + 1) |->
                        IF i <= n THEN (s[i] * k + carry[i - 1]) % LimbBase
                        ELSE carry[n]])) : s \in {a}, k \in {d}})

Zeros(k) == [i \in 1..k |-> 0]

BShlLimbs(a, k) == Only({IF s = <<>> THEN <<>> ELSE Zeros(k) \o s : s \in {a}})

BMul(a, b) ==
    Only({(LET acc[i \in 0..Len(t)] ==
                   IF i = 0 THEN <<>>
                   ELSE BAdd(acc[i - 1], BShlLimbs(BMulSmall(s, t[i]), i - 1))
           IN  acc[Len(t)]) : s \in {a}, t \in {b}})

\* short division by d < 2^15, most significant limb first
BDivSmall(a, d) ==
    Only({(LET n == Len(s)
               rem[i \in 1..(n + 1)] ==
                   IF i = n + 1 THEN 0 ELSE (rem[i + 1] * LimbBase + s[i]) % k
           IN  [q |-> BNorm([i \in 1..n |-> (rem[i + 1] * LimbBase + s[i]) \div k]),
                r |-> rem[1]]) : s \in {a}, k \in {d}})

IntBitLen(n) == CHOOSE k \in 0..LimbBits : n < 2 ^ k /\ (k = 0 \/ n >= 2 ^ (k - 1))

BBitLen(a) == IF a = <<>> THEN 0 ELSE (Len(a) - 1) * LimbBits + IntBitLen(a[Len(a)])

BShl(a, k) == BShlLimbs(BMulSmall(a, 2 ^ (k % LimbBits)), k \div LimbBits)

\* a shifted right by k bits, with the "sticky" flag: some dropped bit was 1
BShrSticky(a, k) ==
    Only({(LET kl   == k \div LimbBits
               low  == SubSeq(s, 1, IF kl < Len(s) THEN kl ELSE Len(s))
               high == IF kl < Len(s) THEN SubSeq(s, kl + 1, Len(s)) ELSE <<>>
           IN  Only({[q |-> dv.q,
                      sticky |-> (dv.r # 0) \/ (\E i \in 1..Len(low) : low[i] # 0)] :
                        dv \in {BDivSmall(high, 2 ^ (k % LimbBits))}})) : s \in {a}})

BIsOdd(a) == a # <<>> /\ a[1] % 2 = 1

(***************************************************************************)
(* IEEE-754 binary64 (non-negative, normal range), round to nearest even.  *)
(***************************************************************************)
FZero == [m |-> <<>>, e |-> 0]

\* the double nearest to n * 2^e (plus a non-zero fraction below the last
\* bit of n when sticky), ties to even
RoundToDouble(n, e, sticky) ==
    Only({(LET len == BBitLen(s)
               sh  == len - MantBits
           IN  IF s = <<>> THEN FZero
               ELSE IF len <= MantBits
               THEN [m |-> BShl(s, MantBits - len), e |-> e - (MantBits - len)]
               ELSE Only({(LET q  == BShrSticky(s2.q, 1).q
                               up == BIsOdd(s2.q) /\ (s2.sticky \/ sticky \/ BIsOdd(q))
                           IN  Only({IF BBitLen(r) > MantBits
                                     THEN [m |-> BShrSticky(r, 1).q, e |-> e + sh + 1]
                                     ELSE [m |-> r, e |-> e + sh] :
                                       r \in {IF up THEN BNorm(BAdd(q, <<1>>)) ELSE q}})) :
                             s2 \in {BShrSticky(s, sh - 1)}})) : s \in {n}})

\* int -> float conversion
FromInt(n) == RoundToDouble(BFromInt(n), 0, FALSE)

\* the double written as the decimal k / p (p = 10 or 100): a float literal
\* such as 0.3, or the value returned by round()
Dec(k, p) ==
    Only({RoundToDouble(dv.q, 0 - 75, dv.r # 0) : dv \in {BDivSmall(BShl(BFromInt(k), 75), p)}})

FAdd(fa, fb) ==
    Only({(IF a.m = <<>> THEN b
           ELSE IF b.m = <<>> THEN a
           ELSE LET e0 == IF a.e < b.e THEN a.e ELSE b.e
                IN  RoundToDouble(BAdd(BShl(a.m, a.e - e0), BShl(b.m, b.e - e0)), e0, FALSE)) :
            a \in {fa}, b \in {fb}})

FMul(fa, fb) ==
    Only({(IF a.m = <<>> \/ b.m = <<>> THEN FZero
           ELSE RoundToDouble(BNorm(BMul(a.m, b.m)), a.e + b.e, FALSE)) :
            a \in {fa}, b \in {fb}})

\* float / int for a small positive int d
FDivInt(fa, d) ==
    Only({(IF a.m = <<>> THEN FZero
           ELSE Only({RoundToDouble(dv.q, a.e - 30, dv.r # 0) :
                        dv \in {BDivSmall(BShl(a.m, 30), d)}})) : a \in {fa}})

\* Python round(x, nd) for nd in {1, 2}: the integer K such that the result
\* is the double written K / 10^nd
PyRound(fa, nd) ==
    Only({(IF a.m = <<>> THEN 0
           ELSE Only({Only({BToInt(q) + (IF BIsOdd(s2.q) /\ (s2.sticky \/ BIsOdd(q))
                                         THEN 1 ELSE 0) :
                              q \in {BShrSticky(s2.q, 1).q}}) :
                        s2 \in {BShrSticky(BMulSmall(a.m, 10 ^ nd), (0 - a.e) - 1)}})) :
            a \in {fa}})

(***************************************************************************)
(* Text.  A str is a sequence of one-character strings.                    *)
(***************************************************************************)
Maiuscole == <<"A", "B", "C", "D", "E", "F", "G", "H", "I", "J", "K", "L", "M",
               "N", "O", "P", "Q", "R", "S", "T", "U", "V", "W", "X", "Y", "Z">>

Minuscole == <<"a", "b", "c", "d", "e", "f", "g", "h", "i", "j", "k", "l", "m",
               "n", "o", "p", "q", "r", "s", "t", "u", "v", "w", "x", "y", "z">>

Cifre == <<"0", "1", "2", "3", "4", "5", "6", "7", "8", "9">>

IndexOf(seq, c) == CHOOSE i \in 1..Len(seq) : seq[i] = c

IsIn(seq, c) == \E i \in 1..Len(seq) : seq[i] = c

LowerChar(c) == IF IsIn(Maiuscole, c) THEN Minuscole[IndexOf(Maiuscole, c)] ELSE c

UpperChar(c) == IF IsIn(Minuscole, c) THEN Maiuscole[IndexOf(Minuscole, c)] ELSE c

\* str.lower()
Lower(str) == Only({[i \in 1..Len(s) |-> LowerChar(s[i])] : s \in {str}})

\* str.strip()
Strip(str) ==
    Only({(LET ns == {i \in 1..Len(s) : s[i] # " "}
           IN  IF ns = {} THEN <<>>
               ELSE SubSeq(s, CHOOSE i \in ns : \A j \in ns : i <= j,
                              CHOOSE i \in ns : \A j \in ns : j <= i)) : s \in {str}})

\* str.replace(old, new) for single characters
Replace(str, old, new) ==
    Only({[i \in 1..Len(s) |-> IF s[i] = old THEN new ELSE s[i]] : s \in {str}})

\* the Python test  needle in hay
Contains(needle, hay) ==
    Only({\E i \in 0..(Len(h) - Len(n)) : SubSeq(h, i + 1, i + Len(n)) = n :
            n \in {needle}, h \in {hay}})

\* str.title(): a letter is upper-cased after a non-letter, lower-cased after a letter
Title(str) ==
    Only({[i \in 1..Len(s) |->
              IF i = 1 \/ ~(IsIn(Maiuscole, s[i - 1]) \/ IsIn(Minuscole, s[i - 1]))
              THEN UpperChar(s[i]) ELSE LowerChar(s[i])] : s \in {str}})

\* float(str) after strip(), for unsigned decimal literals "ddd", "ddd.dd",
\* ".dd", "ddd."; anything else raises ValueError.  The value is returned in
\* cents (digits after the second decimal are dropped).
ParseFloat(str) ==
    Only({(LET dots == {i \in 1..Len(s) : s[i] = "."}
               ok   == /\ s # <<>>
                       /\ \A i \in 1..Len(s) : s[i] = "." \/ IsIn(Cifre, s[i])
                       /\ Cardinality(dots) <= 1
                       /\ \E i \in 1..Len(s) : IsIn(Cifre, s[i])
               dot  == IF dots = {} THEN Len(s) + 1 ELSE CHOOSE i \in dots : TRUE
               dig(i) == IF i >= 1 /\ i <= Len(s) THEN IndexOf(Cifre, s[i]) - 1 ELSE 0
               whole[i \in 0..Len(s)] ==
                   IF i = 0 THEN 0
                   ELSE IF i < dot THEN whole[i - 1] * 10 + dig(i) ELSE whole[i - 1]
           IN  IF ok
               THEN [ok |-> TRUE,
                     cents |-> whole[Len(s)] * 100 + dig(dot + 1) * 10 + dig(dot + 2)]
               ELSE [ok |-> FALSE, cents |-> 0]) : s \in {str}})

(***************************************************************************)
(* Configuration (class Config).  The JSON files are data outside the      *)
(* program; the values below are one configuration of the shape the        *)
(* accessors return.                                                       *)
(***************************************************************************)
\* Config.get_sections_A_manual(): name and factor descriptions
get_sections_A_manual ==
    << [name |-> <<"A", ".", "1">>, factors |-> <<"a1.1">>],
       [name |-> <<"A", ".", "2">>, factors |-> <<"a2.1", "a2.2">>],
       [name |-> <<"A", ".", "3">>, factors |-> <<"a3.1">>],
       [name |-> <<"A", ".", "5">>, factors |-> <<"a5.1">>],
       [name |-> <<"A", ".", "6">>, factors |-> <<"a6.1">>],
       [name |-> <<"A", ".", "7">>, factors |-> <<"a7.1">>] >>

\* Config.get_sections_B_manual()
get_sections_B_manual ==
    << [name |-> <<"B", ".", "1">>, factors |-> <<"b1.1", "b1.2">>] >>

\* Config.get_natura_giuridica_database(): name -> (level, description), in
\* dict iteration order
get_natura_giuridica_database ==
    << [nome |-> <<"B", "a", "n", "c", "a">>, livello |-> 1, descrizione |-> "Soggetto vigilato"],
       [nome |-> <<"S", "p", "a">>, livello |-> 2, descrizione |-> "Societa per azioni"],
       [nome |-> <<"T", "r", "u", "s", "t">>, livello |-> 4, descrizione |-> "Trust"],
       [nome |-> <<"I", "n", "t", "e", "s", "a", " ", "S", "a", "n", "p", "a", "o", "l", "o">>,
        livello |-> 1, descrizione |-> "Banca"] >>

\* Config.get_natura_giuridica_keywords(): level -> keywords
get_natura_giuridica_keywords ==
    << << <<"s", "i", "m">> >>,
       << <<"s", "t", "u", "d", "i", "o">> >>,
       << <<"s", "r", "l">>, <<"S", ".", "n", ".", "c", ".">> >>,
       << <<"o", "f", "f">> >> >>

\* Config.get_natura_giuridica_categorie_manuali(): category -> level
get_natura_giuridica_categorie_manuali ==
    [c \in {"Soggetto vigilato", "Media impresa", "PMI", "Alto rischio"} |->
        CASE c = "Soggetto vigilato" -> 1
          [] c = "Media impresa" -> 2
          [] c = "PMI" -> 3
          [] c = "Alto rischio" -> 4]

\* Config.get_clienti_studio(): names without a level, in list order
get_clienti_studio ==
    << <<"R", "o", "s", "s", "i", " ", "S", "p", "a">>,
       <<"B", "i", "a", "n", "c", "h", "i", " ", "S", "p", "a">>,
       <<"V", "e", "r", "d", "i", " ", "S", "p", "a">>,
       <<"A", "l", "f", "a", " ", "S", "p", "a">>,
       <<"B", "e", "t", "a", " ", "S", "p", "a">>,
       <<"G", "a", "m", "m", "a", " ", "S", "p", "a">>,
       <<"D", "e", "l", "t", "a", " ", "S", "p", "a">>,
       <<"O", "m", "e", "g", "a", " ", "S", "p", "a">>,
       <<"S", "i", "g", "m", "a", " ", "S", "p", "a">>,
       <<"Z", "e", "t", "a", " ", "S", "p", "a">>,
       <<"N", "e", "r", "i", " ", "S", "r", "l">> >>

\* Config.LUOGHI_RISCHIO_COMPLETO after inizializza_luoghi(): provinces, then
\* countries.  Milano, Genova, Afghanistan and USA are the examples of the
\* help text of the geography sections (lines 1946-1949).
LUOGHI_RISCHIO_COMPLETO ==
    << [luogo |-> <<"R", "o", "m", "a">>, livello |-> 2],
       [luogo |-> <<"L", "o", "d", "i">>, livello |-> 1],
       [luogo |-> <<"M", "i", "l", "a", "n", "o">>, livello |-> 4],
       [luogo |-> <<"G", "e", "n", "o", "v", "a">>, livello |-> 1],
       [luogo |-> <<"A", "n", "c", "o", "n", "a">>, livello |-> 1],
       [luogo |-> <<"C", "a", "t", "a", "n", "i", "a">>, livello |-> 3],
       [luogo |-> <<"T", "r", "a", "p", "a", "n", "i">>, livello |-> 3],
       [luogo |-> <<"B", "o", "l", "z", "a", "n", "o">>, livello |-> 1],
       [luogo |-> <<"T", "a", "r", "a", "n", "t", "o">>, livello |-> 2],
       [luogo |-> <<"M", "a", "n", "t", "o", "v", "a">>, livello |-> 1],
       [luogo |-> <<"I", "r", "a", "n">>, livello |-> 4],
       [luogo |-> <<"A", "f", "g", "h", "a", "n", "i", "s", "t", "a", "n">>, livello |-> 4],
       [luogo |-> <<"U", "S", "A">>, livello |-> 1],
       [luogo |-> <<"A", "n", "d", "o", "r", "r", "a">>, livello |-> 3],
       [luogo |-> <<"A", "n", "g", "o", "l", "a">>, livello |-> 4],
       [luogo |-> <<"P", "a", "n", "a", "m", "a">>, livello |-> 4],
       [luogo |-> <<"S", "u", "d", "a", "n">>, livello |-> 4] >>

\* Config.get_prestazioni_veda(): service -> baseline level
get_prestazioni_veda ==
    [p \in {"Pareri", "Contenzioso", "Continuativa", "Societario", "Fiduciaria"} |->
        CASE p = "Pareri" -> 1
          [] p = "Contenzioso" -> 2
          [] p = "Continuativa" -> 3
          [] p = "Societario" -> 4
          [] p = "Fiduciaria" -> 4]

\* Config.get_prestazioni_solo_tabella_a()
get_prestazioni_solo_tabella_a == {"Continuativa", "Fiduciaria"}

(***************************************************************************)
(* RiskCalculator.  Scores are kept as the integer number of tenths        *)
(* (section values) or hundredths (risks) that the Python float is written *)
(* as; Dec() gives back the float itself wherever it enters a computation. *)
(***************************************************************************)
\* sum of the selected levels, left to right
SumLevels(levels) ==
    Only({(LET acc[i \in 0..Len(s)] == IF i = 0 THEN 0 ELSE acc[i - 1] + s[i]
           IN  acc[Len(s)]) : s \in {levels}})

\* variant: the comprehension without its filter, every factor's level taken
SelectedLevels_tutti(section_data) ==
    section_data.level_vars

\* the list comprehension of calcola_media_sezione
SelectedLevels(section_data) ==
    LET idx == {i \in 1..Len(section_data.vars) : section_data.vars[i]}
        ord[k \in 0..Cardinality(idx)] ==
            IF k = 0 THEN 0 ELSE CHOOSE i \in idx : i > ord[k - 1] /\ \A j \in idx : j > ord[k - 1] => i <= j
    IN  [k \in 1..Cardinality(idx) |-> section_data.level_vars[ord[k]]]

\* RiskCalculator.calcola_media_sezione, in tenths
calcola_media_sezione(section_data) ==
    Only({IF selected_levels # <<>>
          THEN PyRound(FDivInt(FromInt(SumLevels(selected_levels)), Len(selected_levels)), 1)
          ELSE 0 : selected_levels \in {SelectedLevels(section_data)}})

\* variant: the manual sections are visited before the automatic ones
calcola_totale_sezioni_manuali_prima(sections, auto_sections) ==
    Only({Only({(LET totale[i \in 0..Len(sub_medias)] ==
                         IF i = 0 THEN FZero
                         ELSE FAdd(totale[i - 1], Dec(sub_medias[i], 10))
                 IN  [totale |-> totale[Len(sub_medias)], sub_medias |-> sub_medias]) :
                   sub_medias \in
                       {[i \in 1..Len(sections) |-> calcola_media_sezione(sections[i])]
                        \o [i \in 1..Len(auto) |-> 10 * auto[i].level]}}) :
            auto \in {auto_sections}})

\* RiskCalculator.calcola_totale_sezioni: the float total and the list of
\* sub-values (tenths), automatic sections first
calcola_totale_sezioni(sections, auto_sections) ==
    Only({Only({(LET totale[i \in 0..Len(sub_medias)] ==
                         IF i = 0 THEN FZero
                         ELSE FAdd(totale[i - 1], Dec(sub_medias[i], 10))
                 IN  [totale |-> totale[Len(sub_medias)], sub_medias |-> sub_medias]) :
                   sub_medias \in
                       {[i \in 1..Len(auto) |-> 10 * auto[i].level]
                        \o [i \in 1..Len(sections) |-> calcola_media_sezione(sections[i])]}}) :
            auto \in {auto_sections}})

BASSO == "BASSO/POCO SIGNIFICATIVO - Adeguata Verifica Semplificata"

ABBASTANZA == "ABBASTANZA SIGNIFICATIVO - Adeguata Verifica Ordinaria"

MOLTO == "MOLTO SIGNIFICATIVO - Adeguata Verifica Rafforzata"

\* variant: the upper bounds are exclusive
calcola_livello_rischio_esclusivo(somma) ==
    IF somma < 250 THEN BASSO
    ELSE IF somma < 350 THEN ABBASTANZA
    ELSE MOLTO

\* RiskCalculator.calcola_livello_rischio; somma in hundredths
calcola_livello_rischio(somma) ==
    IF somma <= 250 THEN BASSO
    ELSE IF somma <= 350 THEN ABBASTANZA
    ELSE MOLTO

\* variant: each threshold itself stays in the lower band
calcola_livello_da_importo_esclusivo(importo) ==
    IF importo <= 5000000 THEN 1
    ELSE IF importo <= 25000000 THEN 2
    ELSE IF importo <= 100000000 THEN 3
    ELSE 4

\* RiskCalculator.calcola_livello_da_importo; importo in cents.  The thresholds
\* are integers, which a float holds exactly, so the float nearest to an
\* amount of whole cents is below a threshold exactly when the amount is.
calcola_livello_da_importo(importo) ==
    IF importo < 5000000 THEN 1
    ELSE IF importo < 25000000 THEN 2
    ELSE IF importo < 100000000 THEN 3
    ELSE 4

\* variant: the key looked up is the trimmed text as typed
get_livello_paese_senza_title(paese) ==
    Only({(LET hit == {i \in 1..Len(LUOGHI_RISCHIO_COMPLETO) :
                         LUOGHI_RISCHIO_COMPLETO[i].luogo = paese_norm}
           IN  IF hit = {} THEN 0
               ELSE LUOGHI_RISCHIO_COMPLETO[CHOOSE i \in hit : TRUE].livello) :
            paese_norm \in {Strip(paese)}})

\* RiskCalculator.get_livello_paese
get_livello_paese(paese) ==
    Only({(LET hit == {i \in 1..Len(LUOGHI_RISCHIO_COMPLETO) :
                         LUOGHI_RISCHIO_COMPLETO[i].luogo = paese_norm}
           IN  IF hit = {} THEN 0
               ELSE LUOGHI_RISCHIO_COMPLETO[CHOOSE i \in hit : TRUE].livello) :
            paese_norm \in {Title(Strip(paese))}})

(***************************************************************************)
(* AMLRiskApp: the automatic sections.  A form snapshot frm is the record  *)
(* of the widget contents read by one evaluation.                          *)
(***************************************************************************)
\* the smallest index of a non-empty set of indices (first loop hit)
First(idx) == CHOOSE i \in idx : \A j \in idx : i <= j

\* variant: a selected category is taken before the registry and the keywords
natura_level_A1_categoria_prima(frm) ==
    LET database  == get_natura_giuridica_database
        keywords  == get_natura_giuridica_keywords
        categorie == get_natura_giuridica_categorie_manuali
    IN  Only({(LET db_hit == {i \in 1..Len(database) :
                                Contains(Lower(database[i].nome), Lower(natura_text))}
                   kw_hit == {lvl \in 1..Len(keywords) :
                                \E k \in 1..Len(keywords[lvl]) :
                                    Contains(keywords[lvl][k], Lower(natura_text))}
               IN  IF frm.fallback # ""
                   THEN (IF frm.fallback \in DOMAIN categorie
                         THEN categorie[frm.fallback] ELSE 3)
                   ELSE IF db_hit # {} THEN database[First(db_hit)].livello
                   ELSE IF kw_hit # {} THEN First(kw_hit)
                   ELSE 3) : natura_text \in {Strip(frm.natura)}})

\* variant: without the final default, natura_level stays 0 when nothing
\* matches and no category is selected
natura_level_A1_senza_default(frm) ==
    LET database  == get_natura_giuridica_database
        keywords  == get_natura_giuridica_keywords
        categorie == get_natura_giuridica_categorie_manuali
    IN  Only({(LET db_hit == {i \in 1..Len(database) :
                                Contains(Lower(database[i].nome), Lower(natura_text))}
                   kw_hit == {lvl \in 1..Len(keywords) :
                                \E k \in 1..Len(keywords[lvl]) :
                                    Contains(keywords[lvl][k], Lower(natura_text))}
               IN  IF db_hit # {} THEN database[First(db_hit)].livello
                   ELSE IF kw_hit # {} THEN First(kw_hit)
                   ELSE IF frm.fallback # ""
                        THEN (IF frm.fallback \in DOMAIN categorie
                              THEN categorie[frm.fallback] ELSE 3)
                   ELSE 0) : natura_text \in {Strip(frm.natura)}})

\* the level chosen for A.1 by _get_automatic_sections_A
natura_level_A1(frm) ==
    LET database  == get_natura_giuridica_database
        keywords  == get_natura_giuridica_keywords
        categorie == get_natura_giuridica_categorie_manuali
    IN  Only({(LET db_hit == {i \in 1..Len(database) :
                                Contains(Lower(database[i].nome), Lower(natura_text))}
                   kw_hit == {lvl \in 1..Len(keywords) :
                                \E k \in 1..Len(keywords[lvl]) :
                                    Contains(keywords[lvl][k], Lower(natura_text))}
               IN  IF db_hit # {} THEN database[First(db_hit)].livello
                   ELSE IF kw_hit # {} THEN First(kw_hit)
                   ELSE IF frm.fallback # ""
                        THEN (IF frm.fallback \in DOMAIN categorie
                              THEN categorie[frm.fallback] ELSE 3)
                   ELSE 3) : natura_text \in {Strip(frm.natura)}})

\* variant: a place that is not registered keeps the level 0 of the lookup
area_level_senza_minimo(area) ==
    Only({IF luogo # <<>> THEN get_livello_paese(luogo) ELSE 1 : luogo \in {Strip(area)}})

\* the level of a geography section (A.4, B.6)
area_level(area) ==
    Only({IF luogo # <<>>
          THEN Only({IF livello = 0 THEN 1 ELSE livello : livello \in {get_livello_paese(luogo)}})
          ELSE 1 : luogo \in {Strip(area)}})

\* variant: a checked subjective factor of A.1 raises the level of A.1 to
\* its own level
get_automatic_sections_A_con_fattori(frm) ==
    << [name |-> "A.1 - Natura giuridica",
        level |-> Only({IF \E i \in 1..Len(frm.a1_manual_factors.vars) :
                               /\ frm.a1_manual_factors.vars[i]
                               /\ frm.a1_manual_factors.level_vars[i] > lvl
                        THEN 4 ELSE lvl : lvl \in {natura_level_A1(frm)}})],
       [name |-> "A.4 - Area geografica cliente", level |-> area_level(frm.area_cliente)] >>

\* AMLRiskApp._get_automatic_sections_A
get_automatic_sections_A(frm) ==
    << [name |-> "A.1 - Natura giuridica", level |-> natura_level_A1(frm)],
       [name |-> "A.4 - Area geografica cliente", level |-> area_level(frm.area_cliente)] >>

\* Python None; every optional value is a record, so None compares with it
None == [none |-> TRUE]

\* the count of checked aggravating checkboxes of the B.3 panel
aggravanti_di(frm) ==
    (IF frm.check_b3_incongruo THEN 1 ELSE 0)
        + (IF frm.check_b3_frazionamenti THEN 1 ELSE 0)
        + (IF frm.check_b3_altro THEN 1 ELSE 0)

\* the smaller of two integers
Min(a, b) == IF a <= b THEN a ELSE b

\* AMLRiskApp._aggiorna_b3_livello_finale: the text of label_b3_livello_finale,
\* None for the empty text
aggiorna_b3_livello_finale(frm) ==
    LET importo_str == Strip(Replace(frm.importo, ",", "."))
        parsed      == ParseFloat(importo_str)
    IN  IF importo_str = <<>> \/ ~parsed.ok THEN None
        ELSE LET livello_base   == calcola_livello_da_importo(parsed.cents)
                 aggravanti     == aggravanti_di(frm)
                 livello_finale == Min(livello_base + aggravanti, 4)
             IN  IF aggravanti > 0
                 THEN [livello_finale |-> livello_finale, livello_base |-> livello_base,
                       aggravanti |-> aggravanti]
                 ELSE [livello_finale |-> livello_finale]

\* variant: B.3 enters table B with the final level shown in the panel
get_automatic_sections_B_finale(frm, importo) ==
    << [name |-> "B.3 - Ammontare operazione",
        level |-> IF importo # None
                  THEN Min(calcola_livello_da_importo(importo.cents) + aggravanti_di(frm), 4)
                  ELSE 0],
       [name |-> "B.6 - Area geografica destinazione", level |-> area_level(frm.area_destinazione)] >>

\* AMLRiskApp._get_automatic_sections_B; importo is None or [cents |-> n]
get_automatic_sections_B(frm, importo) ==
    << [name |-> "B.3 - Ammontare operazione",
        level |-> IF importo # None THEN calcola_livello_da_importo(importo.cents) ELSE 0],
       [name |-> "B.6 - Area geografica destinazione", level |-> area_level(frm.area_destinazione)] >>

\* the sections the form holds in section_vars_A_manual: every configured
\* A-section except the one whose name contains "A.1"
ManualIndexA ==
    {i \in 1..Len(get_sections_A_manual) : ~Contains(<<"A", ".", "1">>, get_sections_A_manual[i].name)}

\* section_vars_A_manual has one entry per section of ManualIndexA, in order
NumManualA == Cardinality(ManualIndexA)

(***************************************************************************)
(* AMLRiskApp.valuta_rischio: the computation up to the result text.       *)
(***************************************************************************)
\* variant: the standard mode divides by the number of sections, A.1
\* counted twice
rischio_specifico_su_11(usa_solo_tabella_a, total_A, total_B, num_fattori_a) ==
    IF usa_solo_tabella_a
    THEN PyRound(FDivInt(total_A, num_fattori_a), 2)
    ELSE PyRound(FDivInt(FAdd(total_A, total_B), 11), 2)

\* rischio_specifico (hundredths) in the two modes
rischio_specifico_di(usa_solo_tabella_a, total_A, total_B, num_fattori_a) ==
    IF usa_solo_tabella_a
    THEN PyRound(FDivInt(total_A, num_fattori_a), 2)
    ELSE PyRound(FDivInt(FAdd(total_A, total_B), 10), 2)

\* variant: the count is of factors, not of sections
num_fattori_a_per_fattore(sections_A_auto, section_vars_A_manual) ==
    Len(sections_A_auto)
    + SumLevels([i \in 1..Len(section_vars_A_manual) |-> Len(section_vars_A_manual[i].vars)])

\* num_fattori_a of the table-A-only branch
num_fattori_a_di(sections_A_auto, section_vars_A_manual) ==
    Len(sections_A_auto) + Len(section_vars_A_manual)

inerente_ponderato_di(rischio_inerente) ==
    PyRound(FMul(FromInt(rischio_inerente), Dec(3, 10)), 2)

specifico_ponderato_di(rischio_specifico) ==
    PyRound(FMul(Dec(rischio_specifico, 100), Dec(7, 10)), 2)

\* somma (hundredths): each weighted term is rounded, then the sum is
somma_ponderata(rischio_inerente, rischio_specifico) ==
    PyRound(FAdd(Dec(inerente_ponderato_di(rischio_inerente), 100),
                 Dec(specifico_ponderato_di(rischio_specifico), 100)), 2)

\* variant: the dialog opens from 3.50 upwards
rischio_rafforzato_da_350(somma) == somma >= 350

\* the test  somma > 3.5  that opens the enhanced-due-diligence dialog
rischio_rafforzato(somma) == somma > 350

\* variant: table B is evaluated in both modes
tabella_B_sempre(frm, importo, usa_solo_tabella_a) ==
    LET sections_B_auto == get_automatic_sections_B(frm, importo)
        tot == calcola_totale_sezioni(frm.section_vars_B_manual, sections_B_auto)
    IN  [sections_B_auto |-> sections_B_auto, totale |-> tot.totale,
         sub_medias |-> tot.sub_medias]

\* the branch on usa_solo_tabella_a: table B is evaluated in standard mode
\* only; otherwise sections_B_auto = [], total_B = 0.0, sub_medias_B = []
tabella_B_di(frm, importo, usa_solo_tabella_a) ==
    IF ~usa_solo_tabella_a
    THEN Only({Only({[sections_B_auto |-> sections_B_auto, totale |-> tot.totale,
                      sub_medias |-> tot.sub_medias] :
                        tot \in {calcola_totale_sezioni(frm.section_vars_B_manual,
                                                        sections_B_auto)}}) :
                 sections_B_auto \in {get_automatic_sections_B(frm, importo)}})
    ELSE [sections_B_auto |-> <<>>, totale |-> FZero, sub_medias |-> <<>>]

\* everything valuta_rischio computes from the form before it touches the
\* window: either the early exit taken, or the local variables
valuta_calcolo(frm) ==
    LET data_valutazione == Strip(frm.data)
        cliente          == Strip(frm.cliente)
        prestazione      == frm.prestazione
        rischio_inerente ==
            IF prestazione \in DOMAIN get_prestazioni_veda
            THEN get_prestazioni_veda[prestazione] ELSE 2
        usa_solo_tabella_a == prestazione \in get_prestazioni_solo_tabella_a
        importo_str == Strip(Replace(frm.importo, ",", "."))
        parsed      == ParseFloat(importo_str)
        importo     == IF importo_str # <<>> THEN [cents |-> parsed.cents] ELSE None
        calcolato(sections_A_auto, tot_A, tot_B, num_fattori_a, rischio_specifico, somma) ==
            [esito |-> "calcolato",
             data_valutazione |-> data_valutazione,
             cliente |-> cliente,
             rischio_inerente |-> rischio_inerente,
             prestazione_veda |-> prestazione,
             importo |-> importo,
             total_A |-> tot_A.totale,
             total_B |-> tot_B.totale,
             rischio_specifico |-> rischio_specifico,
             inerente_ponderato |-> inerente_ponderato_di(rischio_inerente),
             specifico_ponderato |-> specifico_ponderato_di(rischio_specifico),
             somma |-> somma,
             livello |-> calcola_livello_rischio(somma),
             sections_A_auto |-> sections_A_auto,
             sections_B_auto |-> tot_B.sections_B_auto,
             sub_medias_A |-> tot_A.sub_medias,
             sub_medias_B |-> tot_B.sub_medias,
             usa_solo_tabella_a |-> usa_solo_tabella_a,
             num_fattori_a |-> num_fattori_a]
    IN  IF data_valutazione = <<>> THEN [esito |-> "data mancante"]
        ELSE IF cliente = <<>> THEN [esito |-> "cliente mancante"]
        ELSE IF importo_str # <<>> /\ ~parsed.ok THEN [esito |-> "ValueError"]
        ELSE \* the assignments, in order, each right-hand side evaluated once
          Only({Only({Only({Only({
              calcolato(sections_A_auto, tot_A, tot_B, num_fattori_a, rischio_specifico, somma) :
                somma \in {somma_ponderata(rischio_inerente, rischio_specifico)}}) :
                rischio_specifico \in
                    {rischio_specifico_di(usa_solo_tabella_a, tot_A.totale, tot_B.totale,
                                          num_fattori_a)}}) :
                tot_A \in {calcola_totale_sezioni(frm.section_vars_A_manual, sections_A_auto)},
                tot_B \in {tabella_B_di(frm, importo, usa_solo_tabella_a)},
                num_fattori_a \in
                    {IF usa_solo_tabella_a
                     THEN num_fattori_a_di(sections_A_auto, frm.section_vars_A_manual)
                     ELSE 0}}) :
                sections_A_auto \in {get_automatic_sections_A(frm)}})

(***************************************************************************)
(* Form snapshots.                                                         *)
(***************************************************************************)
\* the manual sections the form shows for table A and table B
section_defs_A ==
    SelectSeq(get_sections_A_manual, LAMBDA sec : ~Contains(<<"A", ".", "1">>, sec.name))

section_defs_B == get_sections_B_manual

\* _create_factors_ui: one BooleanVar and one IntVar (1..4) per factor; here
\* every factor of the section is set alike
FactorVars(sec, checked, level) ==
    [vars       |-> [i \in 1..Len(sec.factors) |-> checked],
     level_vars |-> [i \in 1..Len(sec.factors) |-> level]]

\* every section of a table left untouched (unchecked, IntVar at its
\* initial value 1), or every factor checked at one level
Untouched(defs) == [i \in 1..Len(defs) |-> FactorVars(defs[i], FALSE, 1)]

AllChecked(defs, level) == [i \in 1..Len(defs) |-> FactorVars(defs[i], TRUE, level)]

Trust == <<"T", "r", "u", "s", "t">>

Spa == <<"S", "p", "a">>

Iran == <<"i", "r", "a", "n">>

\* the forms submitted in the interactive specification
MainForms ==
    {[data |-> d, cliente |-> c, prestazione |-> p, importo |-> a,
      natura |-> n, fallback |-> "", area_cliente |-> Iran, area_destinazione |-> <<>>,
      section_vars_A_manual |-> sa, section_vars_B_manual |-> AllChecked(section_defs_B, 4),
      check_b3_incongruo |-> FALSE, check_b3_frazionamenti |-> FALSE,
      check_b3_altro |-> FALSE] :
        d \in {<<>>, <<"1">>}, c \in {<<" ">>, <<"c">>}, a \in {<<>>, <<"x">>},
        p \in {"Continuativa", "Fiduciaria", "Societario"}, n \in {Spa, Trust},
        sa \in {Untouched(section_defs_A), AllChecked(section_defs_A, 4)}}

\* the table of valuta_calcolo over the forms of the interactive specification
EsitoMain == [frm \in MainForms |-> valuta_calcolo(frm)]

(***************************************************************************)
(* State.                                                                  *)
(***************************************************************************)
VARIABLES
    pc,               \* "idle": main window;  "dialog": valuta_rischio is
                      \* blocked in dialog.wait_window()
    ev,               \* local variables of the blocked valuta_rischio call
    checkbox_var,     \* the acknowledgement checkbox of the open dialog
    dati_export,      \* self.dati_export
    label_risultato,  \* what self.label_risultato shows
    messagebox,       \* the last message box shown (and the answer given)
    gate,             \* escalation-gate state of the latest evaluation
    clock,            \* the last value read from datetime.now()
    esportato,        \* the data last written by WordExporter.esporta
    fin,              \* argument and result of the pure operations
    fout

vars == <<pc, ev, checkbox_var, dati_export, label_risultato, messagebox, gate,
          clock, esportato, fin, fout>>

MaxClock == 1

\* the fields of the computation printed in the result text
TestoRisultato(loc) ==
    [data_valutazione |-> loc.data_valutazione, cliente |-> loc.cliente,
     importo |-> loc.importo, prestazione |-> loc.prestazione_veda,
     sections_A_auto |-> loc.sections_A_auto, sections_B_auto |-> loc.sections_B_auto,
     total_A |-> loc.total_A, total_B |-> loc.total_B,
     usa_solo_tabella_a |-> loc.usa_solo_tabella_a, num_fattori_a |-> loc.num_fattori_a,
     rischio_specifico |-> loc.rischio_specifico, rischio_inerente |-> loc.rischio_inerente,
     inerente_ponderato |-> loc.inerente_ponderato,
     specifico_ponderato |-> loc.specifico_ponderato,
     somma |-> loc.somma, livello |-> loc.livello]

\* variant: the declaration is not stored with the result
DatiExport_senza_dichiarazione(loc, dichiarazione_rafforzata) ==
    [data_valutazione |-> loc.data_valutazione, cliente |-> loc.cliente,
     rischio_inerente |-> loc.rischio_inerente, prestazione_veda |-> loc.prestazione_veda,
     importo |-> loc.importo, total_A |-> loc.total_A, total_B |-> loc.total_B,
     rischio_specifico |-> loc.rischio_specifico,
     inerente_ponderato |-> loc.inerente_ponderato,
     specifico_ponderato |-> loc.specifico_ponderato,
     somma |-> loc.somma, livello |-> loc.livello,
     sections_A_auto |-> loc.sections_A_auto, sections_B_auto |-> loc.sections_B_auto,
     sub_medias_A |-> loc.sub_medias_A, sub_medias_B |-> loc.sub_medias_B,
     usa_solo_tabella_a |-> loc.usa_solo_tabella_a, num_fattori_a |-> loc.num_fattori_a,
     dichiarazione_rafforzata |-> None]

\* the dict assigned to self.dati_export (the entries that only copy a text
\* field, and the references to the live section widgets, are left out)
DatiExport(loc, dichiarazione_rafforzata) ==
    [data_valutazione |-> loc.data_valutazione, cliente |-> loc.cliente,
     rischio_inerente |-> loc.rischio_inerente, prestazione_veda |-> loc.prestazione_veda,
     importo |-> loc.importo, total_A |-> loc.total_A, total_B |-> loc.total_B,
     rischio_specifico |-> loc.rischio_specifico,
     inerente_ponderato |-> loc.inerente_ponderato,
     specifico_ponderato |-> loc.specifico_ponderato,
     somma |-> loc.somma, livello |-> loc.livello,
     sections_A_auto |-> loc.sections_A_auto, sections_B_auto |-> loc.sections_B_auto,
     sub_medias_A |-> loc.sub_medias_A, sub_medias_B |-> loc.sub_medias_B,
     usa_solo_tabella_a |-> loc.usa_solo_tabella_a, num_fattori_a |-> loc.num_fattori_a,
     dichiarazione_rafforzata |-> dichiarazione_rafforzata]

InitApp ==
    /\ pc = "idle"
    /\ ev = None
    /\ checkbox_var = FALSE
    /\ dati_export = None
    /\ label_risultato = None
    /\ messagebox = ""
    /\ gate = "None"
    /\ clock = 0
    /\ esportato = None

\* fin and fout are used by the specifications of the pure operations only
PureIdle == fin = None /\ fout = None

Init == InitApp /\ PureIdle

(***************************************************************************)
(* Handlers.                                                               *)
(***************************************************************************)
\* AMLRiskApp.valuta_rischio up to its return or to dialog.wait_window()
valuta_rischio(frm) ==
    LET loc == EsitoMain[frm]
    IN  /\ pc = "idle"
        /\ UNCHANGED <<clock, esportato, fin, fout, checkbox_var>>
        /\ CASE loc.esito = "data mancante" ->
                  /\ messagebox' = "showwarning: Inserire la data di valutazione!"
                  /\ UNCHANGED <<pc, ev, dati_export, label_risultato, gate>>
             [] loc.esito = "cliente mancante" ->
                  /\ messagebox' = "showwarning: Inserire il nome del cliente!"
                  /\ UNCHANGED <<pc, ev, dati_export, label_risultato, gate>>
             [] loc.esito = "ValueError" ->
                  /\ messagebox' = "showerror: Controlla gli input"
                  /\ UNCHANGED <<pc, ev, dati_export, label_risultato, gate>>
             [] loc.esito = "calcolato" /\ rischio_rafforzato(loc.somma) ->
                  /\ label_risultato' = TestoRisultato(loc)
                  /\ pc' = "dialog"
                  /\ ev' = loc
                  /\ gate' = "PendingAcknowledgement"
                  /\ UNCHANGED <<dati_export, messagebox>>
             [] loc.esito = "calcolato" /\ ~rischio_rafforzato(loc.somma) ->
                  /\ label_risultato' = TestoRisultato(loc)
                  /\ dati_export' = DatiExport(loc, None)
                  /\ messagebox' = "showinfo: Valutazione completata con successo!"
                  /\ gate' = "NotRequired"
                  /\ UNCHANGED <<pc, ev>>

\* the user ticks or unticks the checkbox of the dialog
spunta ==
    /\ pc = "dialog"
    /\ checkbox_var' = ~checkbox_var
    /\ UNCHANGED <<pc, ev, dati_export, label_risultato, messagebox, gate, clock,
                   esportato, fin, fout>>

\* variant: conferma() does not test the checkbox
conferma_senza_spunta(now) ==
    /\ pc = "dialog"
    /\ clock' = now
    /\ dati_export' = DatiExport(ev, [accepted |-> TRUE, timestamp |-> now,
                                      somma_ponderata |-> ev.somma,
                                      livello |-> ev.livello])
    /\ messagebox' = "showinfo: Valutazione completata con successo!"
    /\ pc' = "idle"
    /\ ev' = None
    /\ checkbox_var' = FALSE
    /\ gate' = "Accepted"
    /\ UNCHANGED <<label_risultato, esportato, fin, fout>>

\* conferma(), and the rest of valuta_rischio once wait_window() returns
conferma(now) ==
    /\ pc = "dialog"
    /\ IF ~checkbox_var
       THEN /\ messagebox' = "showwarning: Devi spuntare la casella di accettazione"
            /\ UNCHANGED <<pc, ev, checkbox_var, dati_export, gate, clock>>
       ELSE /\ clock' = now
            /\ dati_export' = DatiExport(ev, [accepted |-> TRUE, timestamp |-> now,
                                              somma_ponderata |-> ev.somma,
                                              livello |-> ev.livello])
            /\ messagebox' = "showinfo: Valutazione completata con successo!"
            /\ pc' = "idle"
            /\ ev' = None
            /\ checkbox_var' = FALSE
            /\ gate' = "Accepted"
    /\ UNCHANGED <<label_risultato, esportato, fin, fout>>

\* variant: annulla() closes the dialog without asking
annulla_senza_conferma(risposta) ==
    /\ pc = "dialog"
    /\ messagebox' = IF risposta THEN "askyesno: Sei sicuro di voler annullare? -> si"
                     ELSE "askyesno: Sei sicuro di voler annullare? -> no"
    /\ pc' = "idle"
    /\ ev' = None
    /\ checkbox_var' = FALSE
    /\ gate' = "Aborted"
    /\ UNCHANGED <<dati_export, label_risultato, clock, esportato, fin, fout>>

\* annulla(): asks for confirmation; on "yes" the dialog returns None and
\* valuta_rischio returns at once
annulla(risposta) ==
    /\ pc = "dialog"
    /\ IF risposta
       THEN /\ messagebox' = "askyesno: Sei sicuro di voler annullare? -> si"
            /\ pc' = "idle"
            /\ ev' = None
            /\ checkbox_var' = FALSE
            /\ gate' = "Aborted"
       ELSE /\ messagebox' = "askyesno: Sei sicuro di voler annullare? -> no"
            /\ UNCHANGED <<pc, ev, checkbox_var, gate>>
    /\ UNCHANGED <<dati_export, label_risultato, clock, esportato, fin, fout>>

\* on_closing(): the window-manager close button
on_closing(risposta) == annulla(risposta)

\* variant: the export is refused unless the last evaluation was finalized
esporta_word_ultima_finalizzata(salvato) ==
    /\ pc = "idle"
    /\ IF dati_export = None \/ gate \notin {"NotRequired", "Accepted"}
       THEN /\ messagebox' = "showerror: Prima esegui la valutazione del rischio!"
            /\ UNCHANGED esportato
       ELSE IF salvato
       THEN /\ esportato' = dati_export
            /\ messagebox' = "showinfo: File Word creato"
       ELSE UNCHANGED <<esportato, messagebox>>
    /\ UNCHANGED <<pc, ev, checkbox_var, dati_export, label_risultato, gate, clock, fin, fout>>

\* AMLRiskApp.esporta_word; salvato: a file was chosen in the save dialog
esporta_word(salvato) ==
    /\ pc = "idle"
    /\ IF dati_export = None
       THEN /\ messagebox' = "showerror: Prima esegui la valutazione del rischio!"
            /\ UNCHANGED esportato
       ELSE IF salvato
       THEN /\ esportato' = dati_export
            /\ messagebox' = "showinfo: File Word creato"
       ELSE UNCHANGED <<esportato, messagebox>>
    /\ UNCHANGED <<pc, ev, checkbox_var, dati_export, label_risultato, gate, clock, fin, fout>>

Next ==
    \/ \E frm \in MainForms : valuta_rischio(frm)
    \/ spunta
    \/ \E now \in clock..MaxClock : conferma(now)
    \/ \E risposta \in BOOLEAN : annulla(risposta)
    \/ \E risposta \in BOOLEAN : on_closing(risposta)
    \/ \E salvato \in BOOLEAN : esporta_word(salvato)

Spec == Init /\ [][Next]_vars

(***************************************************************************)
(* The escalation gate (specification Spec).                               *)
(***************************************************************************)
\* C1: an evaluation enters PendingAcknowledgement exactly when its
\* weighted sum exceeds 3.50 (at 3.50 or less it is NotRequired and is
\* stored as the exportable result at once); while the gate is unresolved
\* the stored exportable result and the exported data do not change.
\* Every evaluation that computes a score shows it in label_risultato, so
\* the score of the latest evaluation is label_risultato.somma.
C1_gate_iff_over_350 ==
    [][/\ (gate' = "PendingAcknowledgement") <=> (pc' = "dialog")
       /\ gate' = "PendingAcknowledgement" =>
              /\ label_risultato' = TestoRisultato(ev')
              /\ label_risultato'.somma > 350
              /\ dati_export' = dati_export
              /\ esportato' = esportato
       /\ gate' = "NotRequired" =>
              /\ label_risultato'.somma <= 350
              /\ dati_export' # None
              /\ dati_export'.somma = label_risultato'.somma
              /\ dati_export'.dichiarazione_rafforzata = None
       /\ pc = "idle" /\ label_risultato' # label_risultato =>
              gate' \in {"PendingAcknowledgement", "NotRequired"}]_vars

\* an evaluation of exactly 3.50 was finalized at once, and a later one of
\* 3.51 is waiting in the dialog while the stored result is still the first
C1_witness ==
    /\ gate = "PendingAcknowledgement"
    /\ ev.somma = 351
    /\ dati_export # None
    /\ dati_export.somma = 350
    /\ dati_export.dichiarazione_rafforzata = None

\* C2: in every reachable state the stored exportable result (and the data
\* last exported) carries a declaration exactly when its weighted sum
\* exceeds 3.50, and a declaration has accepted = true and the score and
\* band of the result it is stored with.
DichiarazioneCoerente(dati) ==
    dati # None =>
        /\ (dati.dichiarazione_rafforzata # None) <=> (dati.somma > 350)
        /\ dati.dichiarazione_rafforzata # None =>
               /\ dati.dichiarazione_rafforzata.accepted = TRUE
               /\ dati.dichiarazione_rafforzata.somma_ponderata = dati.somma
               /\ dati.dichiarazione_rafforzata.livello = dati.livello
               /\ dati.livello = MOLTO

C2_declaration_iff_over_350 ==
    DichiarazioneCoerente(dati_export) /\ DichiarazioneCoerente(esportato)

\* an accepted result has been exported, and a result that needed no
\* declaration is stored now
C2_witness ==
    /\ esportato # None
    /\ esportato.dichiarazione_rafforzata # None
    /\ dati_export # None
    /\ dati_export.dichiarazione_rafforzata = None

\* C3: the gate goes from PendingAcknowledgement to Accepted only by
\* conferma() with the checkbox checked; conferma() with the checkbox
\* unchecked leaves the gate pending, the dialog open and the stored result
\* (hence any declaration) as it was.
C3_accept_needs_checkbox ==
    [][/\ gate = "PendingAcknowledgement" /\ gate' = "Accepted" =>
            checkbox_var /\ \E now \in clock..MaxClock : conferma(now)
       /\ \A now \in clock..MaxClock :
            conferma(now) /\ ~checkbox_var =>
                /\ gate' = "PendingAcknowledgement"
                /\ pc' = "dialog"
                /\ dati_export' = dati_export]_vars

\* conferma() has just been refused for the unchecked box, after an earlier
\* evaluation had been accepted
C3_witness ==
    /\ gate = "PendingAcknowledgement"
    /\ ~checkbox_var
    /\ messagebox = "showwarning: Devi spuntare la casella di accettazione"
    /\ dati_export # None
    /\ dati_export.dichiarazione_rafforzata # None

\* C4: from PendingAcknowledgement, annulla() and on_closing() reach Aborted
\* only with the cancellation confirmed; declined, the gate stays pending
\* with the dialog open; neither ever stores a result or accepts.
C4_abort_needs_confirmation ==
    [][\A risposta \in BOOLEAN :
          annulla(risposta) \/ on_closing(risposta) =>
              /\ gate = "PendingAcknowledgement"
              /\ gate' = (IF risposta THEN "Aborted" ELSE "PendingAcknowledgement")
              /\ pc' = (IF risposta THEN "idle" ELSE "dialog")
              /\ dati_export' = dati_export
              /\ esportato' = esportato]_vars

\* the user declined the cancellation and the dialog is still open
C4_witness ==
    /\ gate = "PendingAcknowledgement"
    /\ pc = "dialog"
    /\ messagebox = "askyesno: Sei sicuro di voler annullare? -> no"

\* C5: when the gate resolves to Aborted nothing computed by the aborted
\* evaluation is left in the program state: neither the stored result nor
\* the result text on screen is that of the aborted evaluation.
C5_abort_discards_all ==
    [][gate = "PendingAcknowledgement" /\ gate' = "Aborted" =>
          /\ dati_export' = dati_export
          /\ label_risultato' # TestoRisultato(ev)]_vars

(***************************************************************************)
(* The weighting and the band (specification SpecCompose): the lines of    *)
(* valuta_rischio from rischio_inerente and rischio_specifico to livello.  *)
(***************************************************************************)
MaxSpecifico == 400

ComposeInputs ==
    {[rischio_inerente |-> i, rischio_specifico |-> s] : i \in 1..4, s \in 0..MaxSpecifico}

Ponderazione ==
    [inp \in ComposeInputs |->
        LET somma == somma_ponderata(inp.rischio_inerente, inp.rischio_specifico)
        IN  [inerente_ponderato  |-> inerente_ponderato_di(inp.rischio_inerente),
             specifico_ponderato |-> specifico_ponderato_di(inp.rischio_specifico),
             somma               |-> somma,
             livello             |-> calcola_livello_rischio(somma)]]

InitCompose == InitApp /\ fin \in ComposeInputs /\ fout = None

pondera ==
    /\ fout = None
    /\ fout' = Ponderazione[fin]
    /\ UNCHANGED <<pc, ev, checkbox_var, dati_export, label_risultato, messagebox, gate,
                   clock, esportato, fin>>

NextCompose == pondera

SpecCompose == InitCompose /\ [][NextCompose]_vars

\* round(rischio_inerente * 0.3 + rischio_specifico * 0.7, 2): one rounding
arrotondamento_unico(rischio_inerente, rischio_specifico) ==
    PyRound(FAdd(FMul(FromInt(rischio_inerente), Dec(3, 10)),
                 FMul(Dec(rischio_specifico, 100), Dec(7, 10))), 2)

\* C6: for every rischio_inerente in 1..4 and every two-decimal
\* rischio_specifico the weighted sum computed by valuta_rischio equals
\* round(rischio_inerente * 0.3 + rischio_specifico * 0.7, 2), rounded once.
C6_single_rounding ==
    fout # None =>
        fout.somma = arrotondamento_unico(fin.rischio_inerente, fin.rischio_specifico)

PartChecked(defs) ==
    [i \in 1..Len(defs) |->
        [vars       |-> [j \in 1..Len(defs[i].factors) |-> j = 1 /\ i % 2 = 1],
         level_vars |-> [j \in 1..Len(defs[i].factors) |-> ((i + j) % 4) + 1]]]

ProfiliA ==
    {Untouched(section_defs_A), PartChecked(section_defs_A),
     AllChecked(section_defs_A, 2), AllChecked(section_defs_A, 4)}

ProfiliB ==
    {Untouched(section_defs_B), PartChecked(section_defs_B), AllChecked(section_defs_B, 4)}

Importi == {<<>>, <<"x">>, <<"5", "0", "0", "0", "0">>}

Destinazioni == {<<>>, Iran}

EvalForms ==
    {[data |-> <<"1">>, cliente |-> <<"c">>, prestazione |-> p, importo |-> a,
      natura |-> n, fallback |-> "", area_cliente |-> Iran, area_destinazione |-> dst,
      section_vars_A_manual |-> sa, section_vars_B_manual |-> sb,
      check_b3_incongruo |-> FALSE, check_b3_frazionamenti |-> FALSE,
      check_b3_altro |-> FALSE] :
        p \in DOMAIN get_prestazioni_veda, a \in Importi, n \in {Spa, Trust},
        dst \in Destinazioni, sa \in ProfiliA, sb \in ProfiliB}

EsitoEval == [frm \in EvalForms |-> valuta_calcolo(frm)]

InitEval == InitApp /\ fin \in EvalForms /\ fout = None

valuta ==
    /\ fout = None
    /\ fout' = EsitoEval[fin]
    /\ UNCHANGED <<pc, ev, checkbox_var, dati_export, label_risultato, messagebox, gate,
                   clock, esportato, fin>>

NextEval == valuta

SpecEval == InitEval /\ [][NextEval]_vars

\* C8: in standard mode rischio_specifico is (total_A + total_B) / 10
\* rounded to two decimals, whatever number of sections is populated: in
\* hundredths it is the sum of the sub-values of both tables in tenths.
C8_standard_divisor_10 ==
    fout # None /\ fout.esito = "calcolato" /\ ~fout.usa_solo_tabella_a =>
        fout.rischio_specifico = SumLevels(fout.sub_medias_A) + SumLevels(fout.sub_medias_B)

\* standard mode with the manual B-section and the amount left empty
C8_witness ==
    /\ fout # None
    /\ fout.esito = "calcolato"
    /\ ~fout.usa_solo_tabella_a
    /\ fin.section_vars_B_manual = Untouched(section_defs_B)
    /\ fin.importo = <<>>
    /\ fin.section_vars_A_manual = PartChecked(section_defs_A)
    /\ fout.rischio_specifico > 0

\* C9: in table-A-only mode rischio_specifico is total_A / num_fattori_a
\* rounded to two decimals, where num_fattori_a is the number of automatic
\* A-sections plus the number of manual A-sections of the form (the
\* configured sections other than A.1, which is scored as an automatic
\* section), whatever number of factors is checked.  With t the sum of the
\* A sub-values in tenths and n the count, the quotient in hundredths is
\* 10 t / n rounded to the nearest integer.
C9_table_A_only_divisor ==
    fout # None /\ fout.esito = "calcolato" /\ fout.usa_solo_tabella_a =>
        /\ fout.num_fattori_a = Len(fout.sections_A_auto) + Len(section_defs_A)
        /\ fout.rischio_specifico =
               (20 * SumLevels(fout.sub_medias_A) + fout.num_fattori_a)
                   \div (2 * fout.num_fattori_a)

\* table-A-only mode with one factor of two checked in a section and other
\* sections left empty
C9_witness ==
    /\ fout # None
    /\ fout.esito = "calcolato"
    /\ fout.usa_solo_tabella_a
    /\ fin.section_vars_A_manual = PartChecked(section_defs_A)
    /\ fout.rischio_specifico > 0

\* the snapshots that differ from frm in B-group inputs only
VariantiB(frm) ==
    {[frm EXCEPT !.importo = a, !.area_destinazione = dst, !.section_vars_B_manual = sb] :
        a \in Importi, dst \in Destinazioni, sb \in ProfiliB}

\* what an evaluation yields: the early exit, or the totals, the scores, the
\* band and the gate state
Outcome(res) ==
    IF res.esito = "calcolato"
    THEN [esito |-> res.esito, total_A |-> res.total_A,
          rischio_specifico |-> res.rischio_specifico, somma |-> res.somma,
          livello |-> res.livello,
          gate |-> IF rischio_rafforzato(res.somma) THEN "PendingAcknowledgement"
                   ELSE "NotRequired"]
    ELSE [esito |-> res.esito, total_A |-> FZero, rischio_specifico |-> 0, somma |-> 0,
          livello |-> "", gate |-> "None"]

\* the amount field holds nothing or a number
ImportoValido(frm) ==
    LET importo_str == Strip(Replace(frm.importo, ",", "."))
    IN  importo_str = <<>> \/ ParseFloat(importo_str).ok

\* C10 as stated: in table-A-only mode total_B is 0 with no B sub-values,
\* and any two snapshots that differ in B-group inputs only (B factors,
\* amount field, destination) give the same outcome.
C10_B_inputs_ignored ==
    fout # None /\ fin.prestazione \in get_prestazioni_solo_tabella_a =>
        /\ fout.esito = "calcolato" =>
               fout.total_B = FZero /\ fout.sub_medias_B = <<>> /\ fout.sections_B_auto = <<>>
        /\ \A frm \in VariantiB(fin) : Outcome(EsitoEval[frm]) = Outcome(fout)

\* C10 amended: in table-A-only mode total_B is 0 with no B sub-values,
\* and any two snapshots that differ in B-group inputs only and whose
\* amount fields are both empty or numeric give the same outcome.
C10_B_inputs_ignored_valid_amount ==
    fout # None /\ fin.prestazione \in get_prestazioni_solo_tabella_a =>
        /\ fout.esito = "calcolato" =>
               fout.total_B = FZero /\ fout.sub_medias_B = <<>> /\ fout.sections_B_auto = <<>>
        /\ ImportoValido(fin) =>
               \A frm \in VariantiB(fin) :
                   ImportoValido(frm) => Outcome(EsitoEval[frm]) = Outcome(fout)

\* a table-A-only evaluation with an amount, a destination and the B
\* factors all set
C10_witness ==
    /\ fout # None
    /\ fout.esito = "calcolato"
    /\ fin.prestazione \in get_prestazioni_solo_tabella_a
    /\ fin.importo = <<"5", "0", "0", "0", "0">>
    /\ fin.area_destinazione = Iran
    /\ fin.section_vars_B_manual = AllChecked(section_defs_B, 4)
    /\ fout.total_B = FZero

(***************************************************************************)
(* The section average on its own: one section of up to MaxFattori         *)
(* factors, each with its checkbox and its level menu.                     *)
(***************************************************************************)
MaxFattori == 3

MediaInputs ==
    UNION {{[vars |-> v, level_vars |-> l] : v \in [1..n -> BOOLEAN], l \in [1..n -> 1..4]} :
             n \in 0..MaxFattori}

InitMedia == InitApp /\ fin \in MediaInputs /\ fout = None

media ==
    /\ fout = None
    /\ fout' = [media |-> calcola_media_sezione(fin)]
    /\ UNCHANGED <<pc, ev, checkbox_var, dati_export, label_risultato, messagebox, gate,
                   clock, esportato, fin>>

NextMedia == media

SpecMedia == InitMedia /\ [][NextMedia]_vars

\* the indices of the factors marked applicable
Applicabili(section_data) == {i \in 1..Len(section_data.vars) : section_data.vars[i]}

\* the sections that differ from section_data in the level of one factor that is not applicable
AltriLivelli(section_data) ==
    {[section_data EXCEPT !.level_vars[i] = l] :
       i \in (1..Len(section_data.vars)) \ Applicabili(section_data), l \in 1..4}

\* C11: the average of a section with no applicable factor is 0.0; otherwise it
\* is the mean of the applicable levels rounded to one decimal (the tenth
\* nearest to sum/count), between 1.0 and 4.0; and the level of a factor that
\* is not applicable has no influence on it.
C11_section_average ==
    fout # None =>
        LET idx == Applicabili(fin)
            n == Cardinality(idx)
            sum[S \in SUBSET idx] ==
                IF S = {} THEN 0 ELSE LET i == CHOOSE j \in S : TRUE
                                     IN  fin.level_vars[i] + sum[S \ {i}]
            tot == sum[idx]
        IN  /\ n = 0 => fout.media = 0
            /\ n > 0 => /\ 2 * (10 * tot - n * fout.media) <= n
                        /\ 2 * (n * fout.media - 10 * tot) <= n
                        /\ fout.media >= 10
                        /\ fout.media <= 40
            /\ \A g \in AltriLivelli(fin) : calcola_media_sezione(g) = fout.media

\* the average of two applicable levels beside a factor that is not
\* applicable and has another level
C11_witness ==
    /\ fout # None
    /\ fin = [vars |-> <<TRUE, FALSE, TRUE>>, level_vars |-> <<1, 4, 2>>]
    /\ fout.media = 15

(***************************************************************************)
(* The level of an amount on its own: amounts of whole cents within        *)
(* Margine cents of each threshold, and a few far from all of them.        *)
(***************************************************************************)
Margine == 30

Soglie == {5000000, 25000000, 100000000}

ImportiCents ==
    {0, 1, 100, 15000000, 60000000, 200000000}
        \cup UNION {(t - Margine)..(t + Margine) : t \in Soglie}

InitImporto == InitApp /\ fin \in {[cents |-> c] : c \in ImportiCents} /\ fout = None

livello_da_importo ==
    /\ fout = None
    /\ fout' = [livello |-> calcola_livello_da_importo(fin.cents)]
    /\ UNCHANGED <<pc, ev, checkbox_var, dati_export, label_risultato, messagebox, gate,
                   clock, esportato, fin>>

NextImporto == livello_da_importo

SpecImporto == InitImporto /\ [][NextImporto]_vars

ImportiB3 ==
    {<<>>, <<"x">>, <<"4", "9", "9", "9", "9", ".", "9", "9">>, <<"5", "0", "0", "0", "0">>,
     <<"2", "5", "0", "0", "0", "0">>, <<"1", "0", "0", "0", "0", "0", "0">>}

FormsB3 ==
    {[data |-> <<"1">>, cliente |-> <<"c">>, prestazione |-> p, importo |-> a,
      natura |-> Spa, fallback |-> "", area_cliente |-> Iran, area_destinazione |-> <<>>,
      section_vars_A_manual |-> AllChecked(section_defs_A, 2),
      section_vars_B_manual |-> AllChecked(section_defs_B, 4),
      check_b3_incongruo |-> c1, check_b3_frazionamenti |-> c2, check_b3_altro |-> c3] :
        p \in {"Societario", "Continuativa"}, a \in ImportiB3,
        c1 \in BOOLEAN, c2 \in BOOLEAN, c3 \in BOOLEAN}

EsitoB3 == [frm \in FormsB3 |-> valuta_calcolo(frm)]

EtichettaB3 == [frm \in FormsB3 |-> aggiorna_b3_livello_finale(frm)]

\* the window as built: empty amount, nothing checked, empty label
InitB3 ==
    /\ InitApp
    /\ fin \in {frm \in FormsB3 : /\ frm.importo = <<>>
                                  /\ ~frm.check_b3_incongruo
                                  /\ ~frm.check_b3_frazionamenti
                                  /\ ~frm.check_b3_altro}
    /\ fout = [label_b3_livello_finale |-> None, esito |-> None]

\* a key released in the amount entry: _aggiorna_livello_importo
aggiorna_livello_importo(testo) ==
    /\ fin' = [fin EXCEPT !.importo = testo]
    /\ fout' = [fout EXCEPT !.label_b3_livello_finale = EtichettaB3[fin']]
    /\ UNCHANGED <<pc, ev, checkbox_var, dati_export, label_risultato, messagebox, gate,
                   clock, esportato>>

\* a click on one of the three Checkbutton widgets, whose command is
\* _aggiorna_b3_livello_finale
spunta_b3(k) ==
    /\ fin' = CASE k = 1 -> [fin EXCEPT !.check_b3_incongruo = ~@]
                 [] k = 2 -> [fin EXCEPT !.check_b3_frazionamenti = ~@]
                 [] k = 3 -> [fin EXCEPT !.check_b3_altro = ~@]
    /\ fout' = [fout EXCEPT !.label_b3_livello_finale = EtichettaB3[fin']]
    /\ UNCHANGED <<pc, ev, checkbox_var, dati_export, label_risultato, messagebox, gate,
                   clock, esportato>>

\* the evaluation of the form as it stands
valuta_b3 ==
    /\ fout' = [fout EXCEPT !.esito = EsitoB3[fin]]
    /\ UNCHANGED <<pc, ev, checkbox_var, dati_export, label_risultato, messagebox, gate,
                   clock, esportato, fin>>

NextB3 ==
    \/ \E testo \in ImportiB3 : aggiorna_livello_importo(testo)
    \/ \E k \in 1..3 : spunta_b3(k)
    \/ valuta_b3

SpecB3 == InitB3 /\ [][NextB3]_vars

\* the forms that differ from frm in the aggravating checkboxes only
VariantiB3(frm) ==
    {[frm EXCEPT !.check_b3_incongruo = c1, !.check_b3_frazionamenti = c2,
                 !.check_b3_altro = c3] : c1 \in BOOLEAN, c2 \in BOOLEAN, c3 \in BOOLEAN}

\* C13: with a numeric amount the final level shown in the panel is the
\* smaller of 4 and the level of the amount plus the number of checked
\* aggravating checkboxes; an evaluation puts the level of the amount itself
\* into table B; and the evaluation of the form (total of table B, specific
\* risk, weighted sum, band and all the rest) is the same whichever of the
\* three checkboxes are checked.
C13_aggravating_informational ==
    LET importo_str == Strip(Replace(fin.importo, ",", "."))
        parsed      == ParseFloat(importo_str)
        checked     == Cardinality({k \in 1..3 : <<fin.check_b3_incongruo,
                                                   fin.check_b3_frazionamenti,
                                                   fin.check_b3_altro>>[k]})
        base        == calcola_livello_da_importo(parsed.cents)
    IN  /\ importo_str # <<>> /\ parsed.ok =>
               /\ fout.label_b3_livello_finale # None
               /\ fout.label_b3_livello_finale.livello_finale
                      = (IF base + checked <= 4 THEN base + checked ELSE 4)
        /\ \A g \in VariantiB3(fin) : EsitoB3[g] = EsitoB3[fin]
        /\ (fout.esito # None /\ fout.esito.esito = "calcolato"
               /\ ~fout.esito.usa_solo_tabella_a /\ fout.esito.importo # None) =>
               fout.esito.sections_B_auto[1].level
                   = calcola_livello_da_importo(fout.esito.importo.cents)

\* amount 50000 with two boxes checked: the panel shows final level 4 and the
\* evaluation of that form holds level 2 for B.3
C13_witness ==
    /\ fin.importo = <<"5", "0", "0", "0", "0">>
    /\ fin.check_b3_incongruo /\ fin.check_b3_altro /\ ~fin.check_b3_frazionamenti
    /\ fout.label_b3_livello_finale # None
    /\ fout.label_b3_livello_finale.livello_finale = 4
    /\ fout.esito = EsitoB3[fin]
    /\ fout.esito.esito = "calcolato"
    /\ ~fout.esito.usa_solo_tabella_a
    /\ fout.esito.sections_B_auto[1].level = 2

\* the input fields a report of valuta_rischio names as the cause; the text
\* shown for a ValueError is "Controlla gli input: - Livelli devono essere tra
\* 1 e 4 - Importo deve essere un numero valido", followed by str(e)
CampiSegnalati(testo) ==
    CASE testo = "showwarning: Inserire la data di valutazione!" -> {"data"}
      [] testo = "showwarning: Inserire il nome del cliente!" -> {"cliente"}
      [] testo = "showerror: Controlla gli input" -> {"livelli", "importo"}
      [] OTHER -> {}

\* the reports of the early exits and of the ValueError handler
Segnalazioni ==
    {"showwarning: Inserire la data di valutazione!",
     "showwarning: Inserire il nome del cliente!",
     "showerror: Controlla gli input"}

\* C14: an evaluation that fails validation reports the failure attributed to
\* the one offending field (the date, the client name, or the amount when it
\* is not numeric; the level menus only offer 1..4), never with a generic
\* report, and it leaves the result on screen, the stored result and the gate
\* as they were.
C14_field_attributed_errors ==
    [][(pc = "idle" /\ messagebox' # messagebox /\ messagebox' \in Segnalazioni) =>
          /\ CampiSegnalati(messagebox')
                 = {CASE messagebox' = "showwarning: Inserire la data di valutazione!" -> "data"
                      [] messagebox' = "showwarning: Inserire il nome del cliente!" -> "cliente"
                      [] messagebox' = "showerror: Controlla gli input" -> "importo"}
          /\ UNCHANGED <<dati_export, label_risultato, ev, gate, pc>>]_vars

(***************************************************************************)
(* Two evaluations of one form.  Each call runs valuta_rischio to its end, *)
(* the decision taken in the dialog included; fout lists what each call    *)
(* left in dati_export.                                                    *)
(***************************************************************************)
InitDue == InitApp /\ fin \in EvalForms /\ fout = <<>>

\* valuta_rischio with, when the dialog opens, conferma() at time now with the
\* box ticked (accetta) or annulla() answered yes
valuta_e_decidi(accetta, now) ==
    LET loc == EsitoEval[fin]
    IN  /\ Len(fout) < 2
        /\ now >= clock
        /\ IF loc.esito # "calcolato"
           THEN /\ fout' = Append(fout, [decisione |-> "None", risultato |-> None])
                /\ UNCHANGED clock
           ELSE IF ~rischio_rafforzato(loc.somma)
           THEN /\ fout' = Append(fout, [decisione |-> "NotRequired",
                                         risultato |-> DatiExport(loc, None)])
                /\ UNCHANGED clock
           ELSE IF accetta
           THEN /\ fout' = Append(fout,
                                  [decisione |-> "Accepted",
                                   risultato |->
                                       DatiExport(loc, [accepted |-> TRUE, timestamp |-> now,
                                                        somma_ponderata |-> loc.somma,
                                                        livello |-> loc.livello])])
                /\ clock' = now
           ELSE /\ fout' = Append(fout, [decisione |-> "Aborted", risultato |-> None])
                /\ UNCHANGED clock
        /\ UNCHANGED <<pc, ev, checkbox_var, dati_export, label_risultato, messagebox, gate,
                       esportato, fin>>

NextDue == \E accetta \in BOOLEAN, now \in 0..MaxClock : valuta_e_decidi(accetta, now)

SpecDue == InitDue /\ [][NextDue]_vars

\* C15: two evaluations of the same form under the same configuration, with
\* the same decision at the gate, yield results equal in every field, the
\* declaration of the enhanced-risk dialog included.
C15_evaluate_deterministic ==
    (Len(fout) = 2 /\ fout[1].decisione = fout[2].decisione) =>
        fout[1].risultato = fout[2].risultato

(***************************************************************************)
(* The levels of an evaluation: forms with matched, unmatched and empty    *)
(* geography, with and without an amount, with matched and unmatched legal *)
(* nature; fout holds the evaluation and the two geography lookups.        *)
(***************************************************************************)
Ignoto == <<"x", "x">>

FormsLivelli ==
    {[data |-> <<"1">>, cliente |-> <<"c">>, prestazione |-> p, importo |-> a,
      natura |-> n, fallback |-> fb, area_cliente |-> ac, area_destinazione |-> dst,
      section_vars_A_manual |-> PartChecked(section_defs_A),
      section_vars_B_manual |-> PartChecked(section_defs_B),
      check_b3_incongruo |-> FALSE, check_b3_frazionamenti |-> FALSE,
      check_b3_altro |-> FALSE] :
        p \in {"Pareri", "Societario", "Continuativa"},
        a \in {<<>>, <<" ">>, <<"0">>, <<"5", "0", "0", "0", "0">>},
        n \in {Spa, <<"z", "z">>}, fb \in {"", "Alto rischio"},
        ac \in {<<>>, Iran, Ignoto}, dst \in {<<>>, Ignoto}}

EsitoLivelli == [frm \in FormsLivelli |-> valuta_calcolo(frm)]

InitLivelli == InitApp /\ fin \in FormsLivelli /\ fout = None

valuta_livelli ==
    /\ fout = None
    /\ fout' = [esito |-> EsitoLivelli[fin],
                area_cliente |-> get_livello_paese(Strip(fin.area_cliente)),
                area_destinazione |-> get_livello_paese(Strip(fin.area_destinazione))]
    /\ UNCHANGED <<pc, ev, checkbox_var, dati_export, label_risultato, messagebox, gate,
                   clock, esportato, fin>>

NextLivelli == valuta_livelli

SpecLivelli == InitLivelli /\ [][NextLivelli]_vars

\* the place is a key of LUOGHI_RISCHIO_COMPLETO once stripped and title-cased
LuogoNoto(area) ==
    \E i \in 1..Len(LUOGHI_RISCHIO_COMPLETO) :
        LUOGHI_RISCHIO_COMPLETO[i].luogo = Title(Strip(area))

\* the configuration holds levels 1..4 only
ConfigLivelliValidi ==
    /\ \A p \in DOMAIN get_prestazioni_veda : get_prestazioni_veda[p] \in 1..4
    /\ \A i \in 1..Len(get_natura_giuridica_database) :
           get_natura_giuridica_database[i].livello \in 1..4
    /\ Len(get_natura_giuridica_keywords) = 4
    /\ \A c \in DOMAIN get_natura_giuridica_categorie_manuali :
           get_natura_giuridica_categorie_manuali[c] \in 1..4
    /\ \A i \in 1..Len(LUOGHI_RISCHIO_COMPLETO) : LUOGHI_RISCHIO_COMPLETO[i].livello \in 1..4

\* C16: with configuration levels in 1..4, the service baseline, every level
\* of a manual factor and every level of an automatic section of an
\* evaluation is in 1..4; the value 0 appears only as the result of a
\* geography lookup that matches no place, or as the level of the amount
\* section when no amount is given.
C16_levels_in_range ==
    (ConfigLivelliValidi /\ fout # None /\ fout.esito.esito = "calcolato") =>
        LET res == fout.esito
        IN  /\ res.rischio_inerente \in 1..4
            /\ \A i \in 1..Len(fin.section_vars_A_manual) :
                   \A j \in 1..Len(fin.section_vars_A_manual[i].level_vars) :
                       fin.section_vars_A_manual[i].level_vars[j] \in 1..4
            /\ \A i \in 1..Len(fin.section_vars_B_manual) :
                   \A j \in 1..Len(fin.section_vars_B_manual[i].level_vars) :
                       fin.section_vars_B_manual[i].level_vars[j] \in 1..4
            /\ res.sections_A_auto[1].level \in 1..4
            /\ \/ res.sections_A_auto[2].level \in 1..4
               \/ res.sections_A_auto[2].level = 0 /\ ~LuogoNoto(fin.area_cliente)
            /\ res.sections_B_auto # <<>> =>
                   /\ \/ res.sections_B_auto[1].level \in 1..4
                      \/ res.sections_B_auto[1].level = 0 /\ res.importo = None
                   /\ \/ res.sections_B_auto[2].level \in 1..4
                      \/ res.sections_B_auto[2].level = 0 /\ ~LuogoNoto(fin.area_destinazione)
            /\ fout.area_cliente \in 0..4
            /\ fout.area_cliente = 0 => ~LuogoNoto(fin.area_cliente)
            /\ fout.area_destinazione \in 0..4
            /\ fout.area_destinazione = 0 => ~LuogoNoto(fin.area_destinazione)

\* an evaluation with an unknown client area, no amount and a legal nature
\* that matches nothing: the lookup gives 0, the amount section has level 0,
\* the other automatic sections have levels in 1..4
C16_witness ==
    /\ fout # None
    /\ fout.esito.esito = "calcolato"
    /\ fin.area_cliente = Ignoto
    /\ fin.natura = <<"z", "z">>
    /\ fin.fallback = ""
    /\ fout.area_cliente = 0
    /\ fout.esito.sections_A_auto[1].level = 3
    /\ fout.esito.sections_A_auto[2].level = 1
    /\ fout.esito.sections_B_auto # <<>>
    /\ fout.esito.sections_B_auto[1].level = 0
    /\ fout.esito.importo = None

(***************************************************************************)
(* Text search: RiskCalculator.cerca_natura_giuridica, cerca_luogo and     *)
(* AMLRiskApp._auto_detect_natura_giuridica.                               *)
(***************************************************************************)
\* the characters of the texts used here, in code point order
Ascii ==
    <<" ", ",", "-", ".", "/">> \o Cifre \o <<":">> \o Maiuscole \o Minuscole

\* the order of str values: Python compares strings by code point
StrLess(a, b) ==
    Only({\E i \in 1..Len(y) :
              /\ \A j \in 1..(i - 1) : j <= Len(x) /\ x[j] = y[j]
              /\ \/ i > Len(x)
                 \/ IndexOf(Ascii, x[i]) < IndexOf(Ascii, y[i]) : x \in {a}, y \in {b}})

\* the slice  lista[:n]
Primi(lista, n) == SubSeq(lista, 1, IF Len(lista) < n THEN Len(lista) ELSE n)

\* tipo_generico of cerca_natura_giuridica, as the text of a name
tipo_generico ==
    << <<"S", "o", "g", "g", "e", "t", "t", "o", " ", "v", "i", "g", "i", "l", "a", "t", "o", " ", "/", " ", "G", "r", "a", "n", "d", "e", " ", "a", "z", "i", "e", "n", "d", "a">>,
       <<"M", "e", "d", "i", "a", " ", "i", "m", "p", "r", "e", "s", "a", " ", "/", " ", "S", "t", "u", "d", "i", "o", " ", "p", "r", "o", "f", "e", "s", "s", "i", "o", "n", "a", "l", "e">>,
       <<"P", "M", "I", " ", "/", " ", "P", "i", "c", "c", "o", "l", "a", " ", "s", "o", "c", "i", "e", "t", "a">>,
       <<"A", "l", "t", "o", " ", "r", "i", "s", "c", "h", "i", "o", " ", "/", " ", "T", "r", "u", "s", "t", " ", "/", " ", "O", "f", "f", "s", "h", "o", "r", "e">> >>

\* the same texts as descriptions
descrizione_generica ==
    << "Soggetto vigilato / Grande azienda", "Media impresa / Studio professionale",
       "PMI / Piccola societa", "Alto rischio / Trust / Offshore" >>

\* the sort key of cerca_natura_giuridica: (x[3], x[1] if x[1] else 999, x[0])
livello_o_999(x) == IF x.livello # None /\ x.livello.val # 0 THEN x.livello.val ELSE 999

chiave_natura_less(x, y) ==
    IF x.is_cliente_studio # y.is_cliente_studio THEN ~x.is_cliente_studio
    ELSE IF livello_o_999(x) # livello_o_999(y) THEN livello_o_999(x) < livello_o_999(y)
    ELSE StrLess(x.nome, y.nome)

\* variant: the sort key (x[1], x[0]), without the prefix component
chiave_luogo_less_senza_prefisso(testo_lower, x, y) ==
    IF x.livello # y.livello THEN x.livello < y.livello
    ELSE StrLess(x.luogo, y.luogo)

\* the sort key of cerca_luogo: (not startswith(testo_lower), x[1], x[0])
chiave_luogo_less(testo_lower, x, y) ==
    LET nx == SubSeq(Lower(x.luogo), 1, Len(testo_lower)) # testo_lower
        ny == SubSeq(Lower(y.luogo), 1, Len(testo_lower)) # testo_lower
    IN  IF nx # ny THEN ~nx
        ELSE IF x.livello # y.livello THEN x.livello < y.livello
        ELSE StrLess(x.luogo, y.luogo)

\* the order of two entries under a sort key: that of cerca_natura_giuridica,
\* or that of cerca_luogo for a given testo_lower
chiave_less(chiave, x, y) ==
    IF chiave.di = "natura" THEN chiave_natura_less(x, y)
    ELSE chiave_luogo_less(chiave.testo_lower, x, y)

\* variant: the list left in the order of insertion
Ordina_senza_ordine(lista, chiave) ==
    lista

\* list.sort(key=...): a stable sort
Ordina(lista, chiave) ==
    Only({(LET ord[i \in 0..Len(l)] ==
                   IF i = 0 THEN <<>>
                   ELSE LET prev == ord[i - 1]
                            pos  == Cardinality({j \in 1..Len(prev) :
                                                   ~chiave_less(chiave, l[i], prev[j])})
                        IN  SubSeq(prev, 1, pos) \o <<l[i]>> \o SubSeq(prev, pos + 1, Len(prev))
           IN  ord[Len(l)]) : l \in {lista}})

\* tier 1 of cerca_natura_giuridica: the registry entries whose lower-cased
\* name contains testo_lower, in dict order
risultati_database(testo_lower) ==
    SelectSeq([i \in 1..Len(get_natura_giuridica_database) |->
                  [nome |-> get_natura_giuridica_database[i].nome,
                   livello |-> [val |-> get_natura_giuridica_database[i].livello],
                   descrizione |-> get_natura_giuridica_database[i].descrizione,
                   is_cliente_studio |-> FALSE]],
              LAMBDA r : Contains(testo_lower, Lower(r.nome)))

\* tier 2: the clients whose lower-cased name contains testo_lower, in list order
risultati_clienti(testo_lower) ==
    SelectSeq([i \in 1..Len(get_clienti_studio) |->
                  [nome |-> get_clienti_studio[i], livello |-> None,
                   descrizione |-> "Cliente studio", is_cliente_studio |-> TRUE]],
              LAMBDA r : Contains(testo_lower, Lower(r.nome)))

\* variant: the keyword tier is consulted even when the first tiers matched
risultati_keywords_sempre(testo_lower, risultati) ==
    LET keywords == get_natura_giuridica_keywords
        hit == {lvl \in 1..Len(keywords) :
                  \E k \in 1..Len(keywords[lvl]) : Contains(keywords[lvl][k], testo_lower)}
    IN  IF hit # {}
        THEN << [nome |-> <<"C", "a", "t", "e", "g", "o", "r", "i", "a", ":", " ">> \o tipo_generico[First(hit)],
                 livello |-> [val |-> First(hit)],
                 descrizione |-> descrizione_generica[First(hit)], is_cliente_studio |-> FALSE] >>
        ELSE <<>>

\* tier 3: only if risultati is empty; the first keyword, by level and list
\* order, that occurs in testo_lower gives one entry
risultati_keywords(testo_lower, risultati) ==
    LET keywords == get_natura_giuridica_keywords
        hit == {lvl \in 1..Len(keywords) :
                  \E k \in 1..Len(keywords[lvl]) : Contains(keywords[lvl][k], testo_lower)}
    IN  IF risultati = <<>> /\ hit # {}
        THEN << [nome |-> <<"C", "a", "t", "e", "g", "o", "r", "i", "a", ":", " ">> \o tipo_generico[First(hit)],
                 livello |-> [val |-> First(hit)],
                 descrizione |-> descrizione_generica[First(hit)], is_cliente_studio |-> FALSE] >>
        ELSE <<>>

\* RiskCalculator.cerca_natura_giuridica
cerca_natura_giuridica(testo) ==
    Only({IF Len(testo_lower) < 2 THEN <<>>
          ELSE Only({Primi(Ordina(risultati \o risultati_keywords(testo_lower, risultati),
                                  [di |-> "natura"]), 10) :
                       risultati \in {risultati_database(testo_lower)
                                        \o risultati_clienti(testo_lower)}}) :
            testo_lower \in {Strip(Lower(testo))}})

\* RiskCalculator.cerca_luogo
cerca_luogo(testo) ==
    Only({IF Len(testo_lower) < 2 THEN <<>>
          ELSE Primi(Ordina(SelectSeq(LUOGHI_RISCHIO_COMPLETO,
                                      LAMBDA r : Contains(testo_lower, Lower(r.luogo))),
                            [di |-> "luogo", testo_lower |-> testo_lower]), 10) :
            testo_lower \in {Strip(Lower(testo))}})

\* normalizza of _auto_detect_natura_giuridica:
\* re.sub(r'[.,\-]', '', s.lower().strip())
normalizza(str) ==
    SelectSeq(Strip(Lower(str)), LAMBDA c : c \notin {".", ",", "-"})

\* get_dropdown_text_for_level of _auto_detect_natura_giuridica
get_dropdown_text_for_level(livello) ==
    LET categorie == get_natura_giuridica_categorie_manuali
        keys == {c \in DOMAIN categorie : categorie[c] = livello}
    IN  IF keys # {} THEN CHOOSE c \in keys : TRUE ELSE ""

\* variant: the containment taken in the direction of the search, the typed
\* text inside the name
auto_detect_natura_giuridica_diretto(testo) ==
    Only({(LET database == get_natura_giuridica_database
               keywords == get_natura_giuridica_keywords
               db_hit == {i \in 1..Len(database) :
                            Contains(testo_norm, normalizza(database[i].nome))}
               kw_hit == {lvl \in 1..Len(keywords) :
                            \E k \in 1..Len(keywords[lvl]) :
                                Contains(testo_norm, normalizza(keywords[lvl][k]))}
           IN  IF db_hit # {}
               THEN [rilevato |-> "database", livello |-> [val |-> database[First(db_hit)].livello],
                     combo_natura_fallback |->
                         get_dropdown_text_for_level(database[First(db_hit)].livello)]
               ELSE IF kw_hit # {}
               THEN [rilevato |-> "keyword", livello |-> [val |-> First(kw_hit)],
                     combo_natura_fallback |-> get_dropdown_text_for_level(First(kw_hit))]
               ELSE [rilevato |-> "nessuno", livello |-> None, combo_natura_fallback |-> ""]) :
            testo_norm \in {normalizza(testo)}})

\* AMLRiskApp._auto_detect_natura_giuridica: which tier set the label, the
\* level the label announces, and the text set in combo_natura_fallback
auto_detect_natura_giuridica(testo) ==
    Only({(LET database == get_natura_giuridica_database
               keywords == get_natura_giuridica_keywords
               db_hit == {i \in 1..Len(database) :
                            Contains(normalizza(database[i].nome), testo_norm)}
               kw_hit == {lvl \in 1..Len(keywords) :
                            \E k \in 1..Len(keywords[lvl]) :
                                Contains(normalizza(keywords[lvl][k]), testo_norm)}
           IN  IF db_hit # {}
               THEN [rilevato |-> "database", livello |-> [val |-> database[First(db_hit)].livello],
                     combo_natura_fallback |->
                         get_dropdown_text_for_level(database[First(db_hit)].livello)]
               ELSE IF kw_hit # {}
               THEN [rilevato |-> "keyword", livello |-> [val |-> First(kw_hit)],
                     combo_natura_fallback |-> get_dropdown_text_for_level(First(kw_hit))]
               ELSE [rilevato |-> "nessuno", livello |-> None, combo_natura_fallback |-> ""]) :
            testo_norm \in {normalizza(testo)}})

\* AMLRiskApp._on_natura_keyrelease: with fewer than 2 characters typed the
\* label is cleared and nothing else happens; otherwise the auto-detection
\* and then the suggestions
on_natura_keyrelease_di(testo) ==
    IF Len(testo) < 2
    THEN [rilevato |-> [rilevato |-> "non eseguito", livello |-> None,
                        combo_natura_fallback |-> "invariato"],
          suggerimenti |-> <<>>]
    ELSE [rilevato |-> auto_detect_natura_giuridica(testo),
          suggerimenti |-> cerca_natura_giuridica(testo)]

\* str.split(sep)[0]: the text before the first occurrence of sep
split_0(str, sep) ==
    Only({(LET qui == {i \in 1..(Len(v) - Len(sep) + 1) :
                         SubSeq(v, i, i + Len(sep) - 1) = sep}
           IN  IF qui = {} THEN v ELSE SubSeq(v, 1, First(qui) - 1)) : v \in {str}})

\* str.split(sep)[1] of a text that holds sep: the text after its first
\* occurrence, up to the next one
split_1(str, sep) ==
    Only({(LET qui == {i \in 1..(Len(v) - Len(sep) + 1) :
                         SubSeq(v, i, i + Len(sep) - 1) = sep}
           IN  split_0(SubSeq(v, First(qui) + Len(sep), Len(v)), sep)) : v \in {str}})

\* AMLRiskApp._on_natura_select for the selected suggestion.  The listbox line
\* of a client is "<nome> [Cliente studio - SELEZIONA LIVELLO ...]", any other
\* line is "<nome> [Liv <n> - <text>] - <descrizione>" (the line is modelled up
\* to the text that follows <n>); the entry is filled with the name, the label
\* announces the level read back from the line, combo_natura_fallback is
\* cleared
on_natura_select_di(suggerimento) ==
    Only({IF Contains(<<"[", "C", "l", "i", "e", "n", "t", "e", " ", "s", "t", "u", "d", "i", "o", " ", "-", " ", "S", "E", "L", "E", "Z", "I", "O", "N", "A", " ", "L", "I", "V", "E", "L", "L", "O">>, value)
          THEN [entry |-> split_0(value, <<" ", "[", "C", "l", "i", "e", "n", "t", "e", " ", "s", "t", "u", "d", "i", "o">>),
                label |-> [cliente_studio |-> TRUE],
                combo_natura_fallback |-> ""]
          ELSE [entry |-> split_0(value, <<" ", "[", "L", "i", "v", " ">>),
                label |-> [rilevato |->
                              IndexOf(Cifre, split_0(split_1(value, <<"[", "L", "i", "v", " ">>), <<" ", "-">>)[1]) - 1],
                combo_natura_fallback |-> ""] :
            value \in {IF suggerimento.is_cliente_studio
                       THEN suggerimento.nome \o <<" ", "[", "C", "l", "i", "e", "n", "t", "e", " ", "s", "t", "u", "d", "i", "o", " ", "-", " ", "S", "E", "L", "E", "Z", "I", "O", "N", "A", " ", "L", "I", "V", "E", "L", "L", "O">>
                       ELSE suggerimento.nome \o <<" ", "[", "L", "i", "v", " ">>
                                \o <<Cifre[suggerimento.livello.val + 1]>> \o <<" ", "-", " ">>}})

\* AMLRiskApp._on_location_select for the selected suggestion: the listbox
\* line is "<luogo> [Livello <n> - <text>]", the name is the part before the
\* first " [", the entry is filled with it; livello_text[livello] raises
\* KeyError for a level outside 1..4, which the handler catches: the label keeps
\* its text and the listbox stays open
on_location_select_di(suggerimento) ==
    Only({Only({[entry |-> luogo,
                 livello |-> livello,
                 label |-> IF livello \in 1..4 THEN [rilevato |-> livello]
                           ELSE [invariato |-> TRUE],
                 listbox_aperta |-> livello \notin 1..4] :
                livello \in {get_livello_paese(luogo)}}) :
          luogo \in {LET value == suggerimento.luogo \o <<" ", "[", "L", "i", "v", "e", "l", "l", "o", " ">>
                         taglio == {i \in 1..(Len(value) - 1) :
                                      value[i] = " " /\ value[i + 1] = "["}
                     IN  SubSeq(value, 1, First(taglio) - 1)}})

\* AMLRiskApp._on_location_keyrelease, for a key other than Escape and Return
on_location_keyrelease_di(testo) ==
    IF Len(testo) < 2 THEN <<>> ELSE cerca_luogo(testo)

(***************************************************************************)
(* The text typed in an entry, and what a key release shows for it.        *)
(***************************************************************************)
MaxCorto == 2

\* every text of up to MaxCorto characters over a few characters
TestiCorti ==
    UNION {[1..n -> {" ", "s", "S", "p", "P", "a", "."}] : n \in 0..MaxCorto}

Testi ==
    TestiCorti \cup
    {<<"I", "n", "t", "e", "s", "a", " ", "S", "a", "n", "p", "a", "o", "l", "o", " ", "S", "p", "a">>,
     <<"T", "r", "u", "s", "t", ",", " ", "B", "a", "n", "c", "a">>,
     <<"s", "p">>,
     <<" ", "s", "p">>,
     <<"s", "p", " ">>,
     <<"s", "p", "a">>,
     <<" ", "s", "p", "a">>,
     <<"s", "p", "a", " ">>,
     <<"S", "P", "A">>,
     <<" ", "S", "P", "A">>,
     <<"S", "P", "A", " ">>,
     <<"S", "p", "a">>,
     <<" ", "S", "p", "a">>,
     <<"S", "p", "a", " ">>,
     <<"p", "a">>,
     <<" ", "p", "a">>,
     <<"p", "a", " ">>,
     <<"P", "A">>,
     <<" ", "P", "A">>,
     <<"P", "A", " ">>,
     <<"a", "n">>,
     <<" ", "a", "n">>,
     <<"a", "n", " ">>,
     <<"t", "r">>,
     <<" ", "t", "r">>,
     <<"t", "r", " ">>,
     <<"T", "R">>,
     <<" ", "T", "R">>,
     <<"T", "R", " ">>,
     <<"T", "r">>,
     <<" ", "T", "r">>,
     <<"T", "r", " ">>,
     <<"i", "n", "t", "e", "s", "a">>,
     <<" ", "i", "n", "t", "e", "s", "a">>,
     <<"i", "n", "t", "e", "s", "a", " ">>,
     <<"I", "N", "T", "E", "S", "A">>,
     <<" ", "I", "N", "T", "E", "S", "A">>,
     <<"I", "N", "T", "E", "S", "A", " ">>,
     <<"I", "n", "t", "e", "s", "a">>,
     <<" ", "I", "n", "t", "e", "s", "a">>,
     <<"I", "n", "t", "e", "s", "a", " ">>,
     <<"s", "r", "l">>,
     <<" ", "s", "r", "l">>,
     <<"s", "r", "l", " ">>,
     <<"S", "R", "L">>,
     <<" ", "S", "R", "L">>,
     <<"S", "R", "L", " ">>,
     <<"S", "r", "l">>,
     <<" ", "S", "r", "l">>,
     <<"S", "r", "l", " ">>,
     <<"s", ".", "n", ".", "c", ".">>,
     <<" ", "s", ".", "n", ".", "c", ".">>,
     <<"s", ".", "n", ".", "c", ".", " ">>,
     <<"S", ".", "n", ".", "c", ".">>,
     <<" ", "S", ".", "n", ".", "c", ".">>,
     <<"S", ".", "n", ".", "c", ".", " ">>,
     <<"S", ".", "N", ".", "C", ".">>,
     <<" ", "S", ".", "N", ".", "C", ".">>,
     <<"S", ".", "N", ".", "C", ".", " ">>,
     <<"s", "n", "c">>,
     <<" ", "s", "n", "c">>,
     <<"s", "n", "c", " ">>,
     <<"S", "N", "C">>,
     <<" ", "S", "N", "C">>,
     <<"S", "N", "C", " ">>,
     <<"o", "f", "f">>,
     <<" ", "o", "f", "f">>,
     <<"o", "f", "f", " ">>,
     <<"O", "F", "F">>,
     <<" ", "O", "F", "F">>,
     <<"O", "F", "F", " ">>,
     <<"r", "o">>,
     <<" ", "r", "o">>,
     <<"r", "o", " ">>,
     <<"R", "O">>,
     <<" ", "R", "O">>,
     <<"R", "O", " ">>,
     <<"R", "o">>,
     <<" ", "R", "o">>,
     <<"R", "o", " ">>,
     <<"i", "r">>,
     <<" ", "i", "r">>,
     <<"i", "r", " ">>,
     <<"z", "z">>,
     <<" ", "z", "z">>,
     <<"z", "z", " ">>,
     <<"b", "a", "n", "c", "a">>,
     <<" ", "b", "a", "n", "c", "a">>,
     <<"b", "a", "n", "c", "a", " ">>,
     <<"B", "A", "N", "C", "A">>,
     <<" ", "B", "A", "N", "C", "A">>,
     <<"B", "A", "N", "C", "A", " ">>,
     <<"B", "a", "n", "c", "a">>,
     <<" ", "B", "a", "n", "c", "a">>,
     <<"B", "a", "n", "c", "a", " ">>,
     <<"S", "p", "a", "-">>,
     <<" ", "S", "p", "a", "-">>,
     <<"S", "p", "a", "-", " ">>,
     <<"S", ".", "p", ".", "A", ".">>,
     <<" ", "S", ".", "p", ".", "A", ".">>,
     <<"S", ".", "p", ".", "A", ".", " ">>,
     <<"s", "p", "a", " ", "s", "r", "l">>,
     <<" ", "s", "p", "a", " ", "s", "r", "l">>,
     <<"s", "p", "a", " ", "s", "r", "l", " ">>,
     <<"S", "P", "A", " ", "S", "R", "L">>,
     <<" ", "S", "P", "A", " ", "S", "R", "L">>,
     <<"S", "P", "A", " ", "S", "R", "L", " ">>,
     <<"M", "a", "r", "i", "o", " ", "R", "o", "s", "s", "i", " ", "S", "R", "L", ",", " ", "M", "i", "l", "a", "n", "o">>,
     <<" ", "M", "a", "r", "i", "o", " ", "R", "o", "s", "s", "i", " ", "S", "R", "L", ",", " ", "M", "i", "l", "a", "n", "o">>,
     <<"M", "a", "r", "i", "o", " ", "R", "o", "s", "s", "i", " ", "S", "R", "L", ",", " ", "M", "i", "l", "a", "n", "o", " ">>,
     <<"m", "a", "r", "i", "o", " ", "r", "o", "s", "s", "i", " ", "s", "r", "l", ",", " ", "m", "i", "l", "a", "n", "o">>,
     <<" ", "m", "a", "r", "i", "o", " ", "r", "o", "s", "s", "i", " ", "s", "r", "l", ",", " ", "m", "i", "l", "a", "n", "o">>,
     <<"m", "a", "r", "i", "o", " ", "r", "o", "s", "s", "i", " ", "s", "r", "l", ",", " ", "m", "i", "l", "a", "n", "o", " ">>,
     <<"s", "i", "m", " ", "o", "f", "f">>,
     <<" ", "s", "i", "m", " ", "o", "f", "f">>,
     <<"s", "i", "m", " ", "o", "f", "f", " ">>,
     <<"S", "I", "M", " ", "O", "F", "F">>,
     <<" ", "S", "I", "M", " ", "O", "F", "F">>,
     <<"S", "I", "M", " ", "O", "F", "F", " ">>,
     <<"n", "e", "r", "i">>,
     <<" ", "n", "e", "r", "i">>,
     <<"n", "e", "r", "i", " ">>,
     <<"N", "E", "R", "I">>,
     <<" ", "N", "E", "R", "I">>,
     <<"N", "E", "R", "I", " ">>,
     <<"S", ".", "p", ".", "A", ".", " ", "s", "r", "l">>,
     <<"S", ".", "p", ".", "A", ".", " ", "T", "r", "u", "s", "t">>,
     <<"s", "n", "c", " ", "o", "f", "f">>,
     <<"r", "o", "m", "a">>,
     <<" ", "r", "o", "m", "a">>,
     <<"r", "o", "m", "a", " ">>,
     <<"R", "O", "M", "A">>,
     <<" ", "R", "O", "M", "A">>,
     <<"R", "O", "M", "A", " ">>,
     <<"R", "o", "m", "a">>,
     <<" ", "R", "o", "m", "a">>,
     <<"R", "o", "m", "a", " ">>,
     <<"u", "s", "a">>,
     <<" ", "u", "s", "a">>,
     <<"u", "s", "a", " ">>,
     <<"U", "S", "A">>,
     <<" ", "U", "S", "A">>,
     <<"U", "S", "A", " ">>,
     <<"U", "s", "a">>,
     <<" ", "U", "s", "a">>,
     <<"U", "s", "a", " ">>,
     <<"u", "s">>,
     <<" ", "u", "s">>,
     <<"u", "s", " ">>,
     <<"m", "i", "l", "a", "n", "o">>,
     <<" ", "m", "i", "l", "a", "n", "o">>,
     <<"m", "i", "l", "a", "n", "o", " ">>,
     <<"M", "i", "l", "a", "n", "o">>,
     <<" ", "M", "i", "l", "a", "n", "o">>,
     <<"M", "i", "l", "a", "n", "o", " ">>,
     <<"i", "r", "a", "n">>,
     <<" ", "i", "r", "a", "n">>,
     <<"i", "r", "a", "n", " ">>,
     <<"t", "e", "h", "e", "r", "a", "n">>,
     <<" ", "t", "e", "h", "e", "r", "a", "n">>,
     <<"t", "e", "h", "e", "r", "a", "n", " ">>}

NaturaDi == [testo \in Testi |-> on_natura_keyrelease_di(testo)]

LuogoDi == [testo \in Testi |-> on_location_keyrelease_di(testo)]

InitRicerca == InitApp /\ fin \in Testi /\ fout = None

on_natura_keyrelease ==
    /\ fout = None
    /\ fout' = [op |-> "natura", rilevato |-> NaturaDi[fin].rilevato,
                suggerimenti |-> NaturaDi[fin].suggerimenti]
    /\ UNCHANGED <<pc, ev, checkbox_var, dati_export, label_risultato, messagebox, gate,
                   clock, esportato, fin>>

on_location_keyrelease ==
    /\ fout = None
    /\ fout' = [op |-> "luogo", suggerimenti |-> LuogoDi[fin]]
    /\ UNCHANGED <<pc, ev, checkbox_var, dati_export, label_risultato, messagebox, gate,
                   clock, esportato, fin>>

NextRicerca == on_natura_keyrelease \/ on_location_keyrelease

SpecRicerca == InitRicerca /\ [][NextRicerca]_vars

\* a is contained in b when letter case is ignored on both sides
SottostringaCI(a, b) == Contains(Lower(a), Lower(b))

\* the names listed in a sequence of suggestions
Nomi(suggerimenti) == {suggerimenti[i].nome : i \in 1..Len(suggerimenti)}

\* C17: a text of fewer than 2 characters once trimmed gives no suggestion, for
\* legal natures and for places, and no detected level; for a longer text
\* every tier matches without regard to letter case: the registry entries and
\* the clients whose name contains the text are suggested (all of them when
\* they are at most 10), a keyword contained in the text gives the suggestion
\* of its level when registry and clients give nothing, the places whose name
\* contains the text are suggested, and the detection is the same for texts
\* that differ in letter case only.
C17_short_query_and_case ==
    fout # None =>
        LET query    == Strip(fin)
            database == get_natura_giuridica_database
            clienti  == get_clienti_studio
            keywords == get_natura_giuridica_keywords
            reg == {i \in 1..Len(database) : SottostringaCI(query, database[i].nome)}
            cli == {i \in 1..Len(clienti) : SottostringaCI(query, clienti[i])}
            kw  == {lvl \in 1..Len(keywords) :
                      \E k \in 1..Len(keywords[lvl]) : SottostringaCI(keywords[lvl][k], query)}
            luoghi == {i \in 1..Len(LUOGHI_RISCHIO_COMPLETO) :
                         SottostringaCI(query, LUOGHI_RISCHIO_COMPLETO[i].luogo)}
        IN  /\ Len(query) < 2 =>
                   /\ fout.suggerimenti = <<>>
                   /\ fout.op = "natura" => fout.rilevato.livello = None
            /\ (Len(query) >= 2 /\ fout.op = "natura") =>
                   /\ Cardinality(reg) + Cardinality(cli) <= 10 =>
                          /\ \A i \in reg : database[i].nome \in Nomi(fout.suggerimenti)
                          /\ \A i \in cli : clienti[i] \in Nomi(fout.suggerimenti)
                   /\ (reg = {} /\ cli = {} /\ kw # {}) =>
                          /\ Len(fout.suggerimenti) = 1
                          /\ fout.suggerimenti[1].livello = [val |-> First(kw)]
                   /\ \A testo \in Testi :
                          Lower(testo) = Lower(fin) => NaturaDi[testo].rilevato = fout.rilevato
            /\ (Len(query) >= 2 /\ fout.op = "luogo") =>
                   \A i \in luoghi :
                       LUOGHI_RISCHIO_COMPLETO[i].luogo
                           \in {fout.suggerimenti[j].luogo : j \in 1..Len(fout.suggerimenti)}

\* what the claim calls the generic category of a level
CategoriaGenerica(lvl) ==
    [nome |-> <<"C", "a", "t", "e", "g", "o", "r", "i", "a", ":", " ">> \o tipo_generico[lvl],
     livello |-> [val |-> lvl], descrizione |-> descrizione_generica[lvl],
     is_cliente_studio |-> FALSE]

\* C18: for a text of at least 2 characters, the suggestions are drawn from
\* the registry entries and the clients whose name contains the (trimmed,
\* lower-cased) text, both tiers together, up to 10; the keyword tier counts
\* only when both give nothing, and then gives exactly one suggestion, the
\* generic category of the lowest level 1..4 that has a keyword contained in
\* the text, or nothing when no keyword is contained.
C18_tiers_of_search ==
    (fout # None /\ fout.op = "natura" /\ Len(Strip(fin)) >= 2) =>
        LET query    == Lower(Strip(fin))
            database == get_natura_giuridica_database
            clienti  == get_clienti_studio
            keywords == get_natura_giuridica_keywords
            reg == {[nome |-> database[i].nome, livello |-> [val |-> database[i].livello],
                     descrizione |-> database[i].descrizione, is_cliente_studio |-> FALSE] :
                      i \in {j \in 1..Len(database) : Contains(query, Lower(database[j].nome))}}
            cli == {[nome |-> clienti[i], livello |-> None, descrizione |-> "Cliente studio",
                     is_cliente_studio |-> TRUE] :
                      i \in {j \in 1..Len(clienti) : Contains(query, Lower(clienti[j]))}}
            kw  == {lvl \in 1..4 : \E k \in 1..Len(keywords[lvl]) : Contains(keywords[lvl][k], query)}
            got == {fout.suggerimenti[i] : i \in 1..Len(fout.suggerimenti)}
        IN  IF reg \cup cli # {}
            THEN /\ got \subseteq reg \cup cli
                 /\ Cardinality(got) = Len(fout.suggerimenti)
                 /\ Len(fout.suggerimenti) = Min(Cardinality(reg \cup cli), 10)
            ELSE IF kw # {}
            THEN fout.suggerimenti = << CategoriaGenerica(CHOOSE lvl \in kw : \A l \in kw : lvl <= l) >>
            ELSE fout.suggerimenti = <<>>

\* "srl" is the name of no registry entry but part of a client's name and a
\* keyword: the client is suggested, the keyword tier is not consulted
C18_witness ==
    /\ fout # None
    /\ fout.op = "natura"
    /\ fin = <<"s", "r", "l">>
    /\ Len(fout.suggerimenti) = 1
    /\ fout.suggerimenti[1].is_cliente_studio

\* every registry entry and client whose lower-cased name contains the
\* trimmed, lower-cased text
Corrispondenze(testo) ==
    LET query    == Lower(Strip(testo))
        database == get_natura_giuridica_database
        clienti  == get_clienti_studio
    IN  {[nome |-> database[i].nome, livello |-> [val |-> database[i].livello],
          descrizione |-> database[i].descrizione, is_cliente_studio |-> FALSE] :
           i \in {j \in 1..Len(database) : Contains(query, Lower(database[j].nome))}}
        \cup
        {[nome |-> clienti[i], livello |-> None, descrizione |-> "Cliente studio",
          is_cliente_studio |-> TRUE] :
           i \in {j \in 1..Len(clienti) : Contains(query, Lower(clienti[j]))}}

\* x comes strictly before y in the ranking (client flag, level with a
\* missing level as 999, name)
PrimaDi(x, y) ==
    LET fx == IF x.is_cliente_studio THEN 1 ELSE 0
        fy == IF y.is_cliente_studio THEN 1 ELSE 0
        lx == IF x.livello = None THEN 999 ELSE x.livello.val
        ly == IF y.livello = None THEN 999 ELSE y.livello.val
    IN  \/ fx < fy
        \/ fx = fy /\ lx < ly
        \/ fx = fy /\ lx = ly /\ StrLess(x.nome, y.nome)

\* C19: at most 10 suggestions are returned; they are in the order of the
\* ranking (registry entries before clients, then by level with a missing
\* level as 999, then by name), and no match left out ranks before one that
\* is returned; so every registry entry precedes every client; and the text
\* "intesa" returns "Intesa Sanpaolo", level 1, first and not as a client.
C19_ranking_and_truncation ==
    (fout # None /\ fout.op = "natura") =>
        LET res == fout.suggerimenti
            got == {res[i] : i \in 1..Len(res)}
        IN  /\ Len(res) <= 10
            /\ \A i \in 1..Len(res) : \A j \in (i + 1)..Len(res) : PrimaDi(res[i], res[j])
            /\ (Len(Strip(fin)) >= 2 /\ Corrispondenze(fin) # {}) =>
                   /\ got \subseteq Corrispondenze(fin)
                   /\ Len(res) = Min(Cardinality(Corrispondenze(fin)), 10)
                   /\ \A x \in Corrispondenze(fin) \ got : \A y \in got : PrimaDi(y, x)
            /\ \A i \in 1..Len(res) : \A j \in (i + 1)..Len(res) :
                   res[i].is_cliente_studio => res[j].is_cliente_studio
            /\ Lower(Strip(fin)) = <<"i", "n", "t", "e", "s", "a">> =>
                   /\ Len(res) >= 1
                   /\ res[1].nome = <<"I", "n", "t", "e", "s", "a", " ", "S", "a", "n", "p", "a", "o", "l", "o">>
                   /\ res[1].livello = [val |-> 1]
                   /\ ~res[1].is_cliente_studio

\* "pa" is part of 2 registry names and 10 client names: 10 suggestions, the
\* level-1 registry entry first although the registry lists it after the
\* level-2 one, then the clients by name
C19_witness ==
    /\ fout # None
    /\ fout.op = "natura"
    /\ fin = <<"p", "a">>
    /\ Cardinality(Corrispondenze(fin)) = 12
    /\ Len(fout.suggerimenti) = 10
    /\ fout.suggerimenti[1].nome = <<"I", "n", "t", "e", "s", "a", " ", "S", "a", "n", "p", "a", "o", "l", "o">>
    /\ fout.suggerimenti[2].nome = <<"S", "p", "a">>
    /\ fout.suggerimenti[3].nome = <<"A", "l", "f", "a", " ", "S", "p", "a">>
    /\ fout.suggerimenti[10].nome = <<"S", "i", "g", "m", "a", " ", "S", "p", "a">>

\* the normalisation the claim describes: lower case, no periods, commas or
\* hyphens, spaces kept
SenzaPunteggiatura(str) ==
    Only({(LET acc[i \in 0..Len(low)] ==
                   IF i = 0 THEN <<>>
                   ELSE IF low[i] = "." \/ low[i] = "," \/ low[i] = "-" THEN acc[i - 1]
                   ELSE Append(acc[i - 1], low[i])
           IN  acc[Len(low)]) : low \in {Lower(str)}})

\* C20: the auto-detection of a typed text announces the level of the first
\* registry entry, in the registry's order, whose normalised name is contained
\* in the normalised text; failing that, the lowest level 1..4 one of whose
\* normalised keywords is contained in the normalised text; failing that, no
\* level.  The text "Mario Rossi SRL, Milano" matches no registry entry and
\* gets level 3 from the keyword "srl".
C20_auto_detect_reversed ==
    (fout # None /\ fout.op = "natura" /\ Len(fin) >= 2) =>
        Only({(LET database == get_natura_giuridica_database
                   keywords == get_natura_giuridica_keywords
                   reg == {i \in 1..Len(database) :
                             Contains(SenzaPunteggiatura(database[i].nome), testo_norm)}
                   kw  == {lvl \in 1..4 :
                             \E k \in 1..Len(keywords[lvl]) :
                                 Contains(SenzaPunteggiatura(keywords[lvl][k]), testo_norm)}
               IN  /\ IF reg # {}
                      THEN /\ fout.rilevato.rilevato = "database"
                           /\ fout.rilevato.livello
                                  = [val |-> database[CHOOSE i \in reg : \A j \in reg : i <= j].livello]
                      ELSE IF kw # {}
                      THEN /\ fout.rilevato.rilevato = "keyword"
                           /\ fout.rilevato.livello = [val |-> CHOOSE l \in kw : \A j \in kw : l <= j]
                      ELSE /\ fout.rilevato.rilevato = "nessuno"
                           /\ fout.rilevato.livello = None
                   /\ fin = <<"M", "a", "r", "i", "o", " ", "R", "o", "s", "s", "i", " ", "S", "R", "L", ",", " ", "M", "i", "l", "a", "n", "o">> =>
                          /\ reg = {}
                          /\ fout.rilevato.rilevato = "keyword"
                          /\ fout.rilevato.livello = [val |-> 3]) :
                testo_norm \in {SenzaPunteggiatura(fin)}})

\* the text of the example has been typed: no registry name is contained in
\* it, the keyword "srl" is, and level 3 is announced
C20_witness ==
    /\ fout # None
    /\ fout.op = "natura"
    /\ fin = <<"M", "a", "r", "i", "o", " ", "R", "o", "s", "s", "i", " ", "S", "R", "L", ",", " ", "M", "i", "l", "a", "n", "o">>
    /\ fout.rilevato = [rilevato |-> "keyword", livello |-> [val |-> 3],
                        combo_natura_fallback |-> "PMI"]
    /\ NaturaDi[<<"I", "n", "t", "e", "s", "a", " ", "S", "a", "n", "p", "a", "o", "l", "o", " ", "S", "p", "a">>].rilevato.livello = [val |-> 2]

(***************************************************************************)
(* C21  cerca_luogo.                                                       *)
(***************************************************************************)
\* C21: for a text of at least two characters once trimmed, the suggestions
\* of cerca_luogo are entries of LUOGHI_RISCHIO_COMPLETO whose name contains
\* the trimmed text when letter case is ignored, none twice; they are 10, or
\* all the matching entries when these are fewer; they are in ascending order
\* of (name does not start with the text, level, name), so every prefix match
\* comes before every other match; and no matching entry left out comes
\* before a listed one in that order.
C21_location_ranking ==
    (fout # None /\ fout.op = "luogo" /\ Len(Strip(fin)) >= 2) =>
        Only({(LET n == Len(LUOGHI_RISCHIO_COMPLETO)
                   match == {k \in 1..n :
                               SottostringaCI(query, LUOGHI_RISCHIO_COMPLETO[k].luogo)}
                   prefisso(x) == /\ Len(x.luogo) >= Len(query)
                                  /\ Lower(SubSeq(x.luogo, 1, Len(query))) = Lower(query)
                   prima(x, y) ==
                       \/ prefisso(x) /\ ~prefisso(y)
                       \/ /\ prefisso(x) = prefisso(y)
                          /\ \/ x.livello < y.livello
                             \/ x.livello = y.livello /\ StrLess(x.luogo, y.luogo)
                   listed == {k \in match : \E i \in 1..Len(res) :
                                               res[i] = LUOGHI_RISCHIO_COMPLETO[k]}
               IN  /\ Len(res) = (IF Cardinality(match) < 10 THEN Cardinality(match) ELSE 10)
                   /\ \A i \in 1..Len(res) :
                          \E k \in match : res[i] = LUOGHI_RISCHIO_COMPLETO[k]
                   /\ \A i, j \in 1..Len(res) : i < j => prima(res[i], res[j])
                   /\ \A i, j \in 1..Len(res) :
                          (prefisso(res[i]) /\ ~prefisso(res[j])) => i < j
                   /\ \A k \in match \ listed : \A i \in 1..Len(res) :
                          prima(res[i], LUOGHI_RISCHIO_COMPLETO[k])) :
                query \in {Strip(fin)}, res \in {fout.suggerimenti}})

\* the text "an" matches thirteen places: the three that start with it come
\* first, Bolzano (level 1) follows them, and Panama (level 4) is cut off
C21_witness ==
    /\ fout # None /\ fout.op = "luogo"
    /\ fin = <<"a", "n">>
    /\ Len(fout.suggerimenti) = 10
    /\ fout.suggerimenti[1] = [luogo |-> <<"A", "n", "c", "o", "n", "a">>, livello |-> 1]
    /\ fout.suggerimenti[3] = [luogo |-> <<"A", "n", "g", "o", "l", "a">>, livello |-> 4]
    /\ fout.suggerimenti[4] = [luogo |-> <<"B", "o", "l", "z", "a", "n", "o">>, livello |-> 1]
    /\ \A i \in 1..10 : fout.suggerimenti[i].luogo # <<"P", "a", "n", "a", "m", "a">>

(***************************************************************************)
(* The geography entry: a key release, the level of the typed text, and    *)
(* the selection of a suggestion.                                          *)
(***************************************************************************)
\* RiskCalculator.get_livello_paese applied to the text of the entry
livello_paese ==
    /\ fout = None
    /\ fout' = [op |-> "livello", livello |-> get_livello_paese(fin)]
    /\ UNCHANGED <<pc, ev, checkbox_var, dati_export, label_risultato, messagebox, gate,
                   clock, esportato, fin>>

\* AMLRiskApp._on_location_select on a line of the listbox that the key
\* release filled
on_location_select ==
    /\ fout # None /\ fout.op = "luogo"
    /\ \E k \in 1..Len(fout.suggerimenti) :
           fout' = [op |-> "selezione", suggerimento |-> fout.suggerimenti[k],
                    esito |-> on_location_select_di(fout.suggerimenti[k])]
    /\ UNCHANGED <<pc, ev, checkbox_var, dati_export, label_risultato, messagebox, gate,
                   clock, esportato, fin>>

NextLuogo == on_location_keyrelease \/ livello_paese \/ on_location_select

SpecLuogo == InitRicerca /\ [][NextLuogo]_vars

\* C22: get_livello_paese returns the level of the entry whose name is the
\* trimmed text in title case (each letter upper-case at the start of the text
\* or after a non-letter, lower-case after a letter, other characters kept),
\* and 0 when there is no such entry; it returns a value for every text.
C22_level_of_place ==
    (fout # None /\ fout.op = "livello") =>
        Only({(LET lettera(c) == IsIn(Maiuscole, c) \/ IsIn(Minuscole, c)
                   titolo(k) ==
                       /\ Len(k) = Len(t)
                       /\ \A i \in 1..Len(t) :
                              /\ LowerChar(k[i]) = LowerChar(t[i])
                              /\ lettera(k[i]) =>
                                     (IsIn(Maiuscole, k[i]) <=> (i = 1 \/ ~lettera(t[i - 1])))
                   chiavi == {i \in 1..Len(LUOGHI_RISCHIO_COMPLETO) :
                                titolo(LUOGHI_RISCHIO_COMPLETO[i].luogo)}
               IN  /\ fout.livello \in 0..4
                   /\ chiavi = {} => fout.livello = 0
                   /\ \A i \in chiavi : fout.livello = LUOGHI_RISCHIO_COMPLETO[i].livello) :
                t \in {Strip(fin)}})

\* "milano " is trimmed and title-cased to the key Milano, level 4
C22_witness ==
    /\ fout # None /\ fout.op = "livello"
    /\ fin = <<"m", "i", "l", "a", "n", "o", " ">>
    /\ fout.livello = 4

\* C28: every suggestion of cerca_luogo, when selected, fills the entry with
\* its name, shows its own level, which is in 1..4, and closes the list.
C28_location_round_trip ==
    (fout # None /\ fout.op = "selezione") =>
        /\ fout.esito.entry = fout.suggerimento.luogo
        /\ fout.esito.livello = fout.suggerimento.livello
        /\ fout.esito.livello \in 1..4
        /\ fout.esito.label = [rilevato |-> fout.suggerimento.livello]
        /\ ~fout.esito.listbox_aperta

\* the text "us" suggests USA, level 1; selecting it fills the entry with USA,
\* whose title case Usa is no key: level 0, the list stays open
C28_witness ==
    /\ fout # None /\ fout.op = "selezione"
    /\ fin = <<"u", "s">>
    /\ fout.suggerimento = [luogo |-> <<"U", "S", "A">>, livello |-> 1]
    /\ fout.esito.entry = <<"U", "S", "A">>
    /\ fout.esito.livello = 0
    /\ fout.esito.listbox_aperta

(***************************************************************************)
(* C23  calcola_totale_sezioni on lists of automatic and manual sections.  *)
(***************************************************************************)
MaxSezioni == 2

\* manual sections with the averages 0.0, 1.3, 2.3 and 4.0
SezioniManuali ==
    { [vars |-> <<FALSE, FALSE>>, level_vars |-> <<3, 4>>],
      [vars |-> <<TRUE, TRUE, TRUE>>, level_vars |-> <<1, 1, 2>>],
      [vars |-> <<TRUE, TRUE, TRUE>>, level_vars |-> <<2, 2, 3>>],
      [vars |-> <<TRUE, FALSE>>, level_vars |-> <<4, 1>>] }

TotaleInputs ==
    {[sections |-> m, auto_sections |-> a] :
        m \in UNION {[1..n -> SezioniManuali] : n \in 0..MaxSezioni},
        a \in UNION {[1..n -> [level : 0..4]] : n \in 0..MaxSezioni}}

InitTotale == InitApp /\ fin \in TotaleInputs /\ fout = None

totale_sezioni ==
    /\ fout = None
    /\ fout' = calcola_totale_sezioni(fin.sections, fin.auto_sections)
    /\ UNCHANGED <<pc, ev, checkbox_var, dati_export, label_risultato, messagebox, gate,
                   clock, esportato, fin>>

NextTotale == totale_sezioni

SpecTotale == InitTotale /\ [][NextTotale]_vars

\* C23: the list of calcola_totale_sezioni has one value per section, the
\* levels of the automatic sections in their order, then the averages of the
\* manual sections in their order; the total is the float sum of the list taken
\* left to right from 0.0, and it is the exact sum of the list once rounded to
\* one decimal.
C23_aggregate_sections ==
    fout # None =>
        Only({(LET na == Len(fin.auto_sections)
                   nm == Len(fin.sections)
                   somma[i \in 0..Len(lista)] ==
                       IF i = 0 THEN FZero ELSE FAdd(somma[i - 1], Dec(lista[i], 10))
               IN  /\ Len(lista) = na + nm
                   /\ \A i \in 1..na : lista[i] = 10 * fin.auto_sections[i].level
                   /\ \A j \in 1..nm : lista[na + j] = calcola_media_sezione(fin.sections[j])
                   /\ fout.totale = somma[Len(lista)]
                   /\ PyRound(fout.totale, 1) = SumLevels(lista)) :
                lista \in {fout.sub_medias}})

\* one automatic section of level 1 and two manual sections of average 1.3:
\* the list is 1, 1.3, 1.3 and the float total is 3.5999999999999996, not the
\* float 3.6
C23_witness ==
    /\ fout # None
    /\ Len(fin.auto_sections) = 1 /\ Len(fin.sections) = 2
    /\ fout.sub_medias = <<10, 13, 13>>
    /\ PyRound(fout.totale, 1) = 36
    /\ fout.totale # Dec(36, 10)

Fallbacks == {""} \cup DOMAIN get_natura_giuridica_categorie_manuali

\* the form read by valuta_rischio for an entity text and a category, the
\* other fields filled in
FormNatura(natura, fallback) ==
    [data |-> <<"1">>, cliente |-> <<"c">>, prestazione |-> "Societario",
     importo |-> <<>>, natura |-> natura, fallback |-> fallback,
     area_cliente |-> <<>>, area_destinazione |-> <<>>,
     section_vars_A_manual |-> Untouched(section_defs_A),
     section_vars_B_manual |-> Untouched(section_defs_B),
     check_b3_incongruo |-> FALSE, check_b3_frazionamenti |-> FALSE,
     check_b3_altro |-> FALSE]

\* AMLRiskApp._on_natura_select on a line of the listbox that the key release
\* filled
on_natura_select ==
    /\ fout # None /\ fout.op = "natura"
    /\ \E k \in 1..Len(fout.suggerimenti) :
           fout' = [op |-> "selezione", suggerimento |-> fout.suggerimenti[k],
                    esito |-> on_natura_select_di(fout.suggerimenti[k])]
    /\ UNCHANGED <<pc, ev, checkbox_var, dati_export, label_risultato, messagebox, gate,
                   clock, esportato, fin>>

\* AMLRiskApp.valuta_rischio, of which fout keeps the outcome and the level of
\* section A.1: on the form as typed with the category scelta, or on the form
\* as the key release or the selection left it
valuta_natura(scelta) ==
    /\ IF fout = None THEN TRUE ELSE fout.op \in {"natura", "selezione"} /\ scelta = ""
    /\ LET natura == IF fout # None /\ fout.op = "selezione" THEN fout.esito.entry ELSE fin
           fallback ==
               IF fout = None THEN scelta
               ELSE IF fout.op = "selezione" THEN fout.esito.combo_natura_fallback
               ELSE IF fout.rilevato.combo_natura_fallback = "invariato" THEN ""
               ELSE fout.rilevato.combo_natura_fallback
       IN  fout' = Only({[op |-> "A1", prima |-> fout, natura |-> natura,
                          fallback |-> fallback, esito |-> loc.esito,
                          livello |-> IF loc.esito = "calcolato"
                                      THEN loc.sections_A_auto[1].level ELSE 0] :
                           loc \in {valuta_calcolo(FormNatura(natura, fallback))}})
    /\ UNCHANGED <<pc, ev, checkbox_var, dati_export, label_risultato, messagebox, gate,
                   clock, esportato, fin>>

NextNatura ==
    \/ on_natura_keyrelease
    \/ on_natura_select
    \/ \E scelta \in Fallbacks : valuta_natura(scelta)

SpecNatura == InitRicerca /\ [][NextNatura]_vars

\* C25: the evaluation is always computed and scores A.1 at the level of the
\* first registry entry whose lower-cased name is inside the lower-cased
\* entity text; failing that, at the lowest level that has a keyword inside
\* that text; failing that, at the level of the selected category; failing
\* that, at 3.
C25_entity_level_precedence ==
    (fout # None /\ fout.op = "A1") =>
        Only({(LET database == get_natura_giuridica_database
                   keywords == get_natura_giuridica_keywords
                   registro == {i \in 1..Len(database) :
                                  Contains(Lower(database[i].nome), testo)}
                   chiave == {lvl \in 1..4 : \E k \in 1..Len(keywords[lvl]) :
                                                Contains(keywords[lvl][k], testo)}
               IN  /\ fout.esito = "calcolato"
                   /\ fout.livello \in 1..4
                   /\ registro # {} =>
                          \E i \in registro : /\ \A j \in registro : i <= j
                                              /\ fout.livello = database[i].livello
                   /\ (registro = {} /\ chiave # {}) =>
                          (fout.livello \in chiave /\ \A lvl \in chiave : fout.livello <= lvl)
                   /\ (registro = {} /\ chiave = {} /\ fout.fallback # "") =>
                          fout.livello = get_natura_giuridica_categorie_manuali[fout.fallback]
                   /\ (registro = {} /\ chiave = {} /\ fout.fallback = "") =>
                          fout.livello = 3) :
                testo \in {Lower(Strip(fout.natura))}})

\* "Spa srl" with the category "Alto rischio" (level 4) selected: the registry
\* entry Spa gives level 2, although the keyword srl has level 3
C25_witness ==
    /\ fout # None /\ fout.op = "A1"
    /\ fout.prima = None
    /\ fout.natura = <<"s", "p", "a", " ", "s", "r", "l">>
    /\ fout.fallback = "Alto rischio"
    /\ fout.livello = 2

\* C26: when the auto-detection of the key release announced a level for the
\* typed text, the evaluation made next, with the category as the
\* auto-detection set it, scores A.1 at that level.
C26_auto_detect_matches_evaluate ==
    (fout # None /\ fout.op = "A1" /\ fout.prima # None /\ fout.prima.op = "natura"
        /\ fout.prima.rilevato.livello # None) =>
        fout.livello = fout.prima.rilevato.livello.val

\* "S.p.A. srl": the auto-detection, which drops the dots, announces level 2
\* (registry entry Spa); the evaluation finds the keyword srl, level 3
C26_witness ==
    /\ fout # None /\ fout.op = "A1" /\ fout.prima # None /\ fout.prima.op = "natura"
    /\ fin = <<"S", ".", "p", ".", "A", ".", " ", "s", "r", "l">>
    /\ fout.prima.rilevato.rilevato = "database"
    /\ fout.prima.rilevato.livello = [val |-> 2]
    /\ fout.fallback = "Media impresa"
    /\ fout.livello = 3

\* C27: after the selection of a suggestion that carries a level, the label
\* announces that level and the evaluation made next scores A.1 at it.
C27_selected_suggestion_level ==
    (fout # None /\ fout.op = "A1" /\ fout.prima # None /\ fout.prima.op = "selezione"
        /\ fout.prima.suggerimento.livello # None) =>
        /\ fout.prima.esito.label = [rilevato |-> fout.prima.suggerimento.livello.val]
        /\ fout.livello = fout.prima.suggerimento.livello.val

\* "sim off": sim is a keyword of level 1 and no name matches, the suggestion
\* is the generic category of level 1; selected, it fills the entry with
\* "Categoria: Soggetto vigilato / Grande azienda", which matches nothing, and
\* the evaluation scores the default 3
C27_witness ==
    /\ fout # None /\ fout.op = "A1" /\ fout.prima # None /\ fout.prima.op = "selezione"
    /\ fin = <<"s", "i", "m", " ", "o", "f", "f">>
    /\ fout.prima.suggerimento.livello = [val |-> 1]
    /\ fout.prima.esito.label = [rilevato |-> 1]
    /\ fout.natura = fout.prima.suggerimento.nome
    /\ fout.fallback = ""
    /\ fout.livello = 3

(***************************************************************************)
(* C29  The subjective factors of A.1 (self.a1_manual_factors): the check  *)
(* boxes and levels that _create_natura_giuridica_section builds for the   *)
(* configured section whose name starts with "A.1".                        *)
(***************************************************************************)
\* form snapshots that also hold the variables of the A.1 subjective factor:
\* unchecked, or checked at a level, the level variable set or left at 1
FormsA1 ==
    {[data |-> <<"1">>, cliente |-> <<"c">>, prestazione |-> p, importo |-> <<>>,
      natura |-> n, fallback |-> "", area_cliente |-> Iran, area_destinazione |-> <<>>,
      section_vars_A_manual |-> sa,
      section_vars_B_manual |-> PartChecked(section_defs_B),
      check_b3_incongruo |-> FALSE, check_b3_frazionamenti |-> FALSE,
      check_b3_altro |-> FALSE,
      a1_manual_factors |-> FactorVars(get_sections_A_manual[1], checked, level)] :
        p \in DOMAIN get_prestazioni_veda, n \in {Spa, Trust, <<"z", "z">>},
        sa \in {Untouched(section_defs_A), PartChecked(section_defs_A)},
        checked \in BOOLEAN, level \in 1..4}

InitA1 == InitApp /\ fin \in FormsA1 /\ fout = None

\* AMLRiskApp.valuta_rischio on a form that holds the A.1 subjective factors
valuta_fattori_a1 ==
    /\ fout = None
    /\ fout' = valuta_calcolo(fin)
    /\ UNCHANGED <<pc, ev, checkbox_var, dati_export, label_risultato, messagebox, gate,
                   clock, esportato, fin>>

NextA1 == valuta_fattori_a1

SpecA1 == InitA1 /\ [][NextA1]_vars

\* C29: the outcome of an evaluation (total_A, rischio_specifico, somma,
\* band, gate) is the same for every setting of the A.1 subjective factors;
\* the automatic A-sections hold A.1 once, its level is the first sub-value
\* of table A, no manual A-section is A.1, and in table-A-only mode the
\* divisor counts the automatic sections and the manual ones, A.1 once.
C29_a1_factors_not_read ==
    fout # None =>
        /\ fout.esito = "calcolato"
        /\ \A checked \in BOOLEAN, level \in 1..4 :
               Outcome(valuta_calcolo(
                   [fin EXCEPT !.a1_manual_factors =
                                   FactorVars(get_sections_A_manual[1], checked, level)]))
                   = Outcome(fout)
        /\ Cardinality({i \in 1..Len(fout.sections_A_auto) :
                          fout.sections_A_auto[i].name = "A.1 - Natura giuridica"}) = 1
        /\ Len(fout.sections_A_auto) = 2
        /\ Len(fout.sub_medias_A) = 2 + Len(fin.section_vars_A_manual)
        /\ Len(fin.section_vars_A_manual) = Len(get_sections_A_manual) - 1
        /\ fout.sub_medias_A[1] = 10 * fout.sections_A_auto[1].level
        /\ PyRound(fout.total_A, 1) = SumLevels(fout.sub_medias_A)
        /\ fout.usa_solo_tabella_a =>
               fout.num_fattori_a = 2 + Len(fin.section_vars_A_manual)

\* a table-A-only evaluation of a Trust with the subjective factor checked at
\* level 1: A.1 still counts 4
C29_witness ==
    /\ fout # None
    /\ fout.esito = "calcolato"
    /\ fout.usa_solo_tabella_a
    /\ fin.natura = Trust
    /\ fin.a1_manual_factors = [vars |-> <<TRUE>>, level_vars |-> <<1>>]
    /\ fout.sub_medias_A[1] = 40
    /\ fout.num_fattori_a = 7

(***************************************************************************)
(* C30  The levels of the automatic sections: geography never 0, the       *)
(* amount 0 when it is not given.                                          *)
(***************************************************************************)
\* C30: in a completed evaluation A.4 holds the level of the client's area,
\* 1 when the field is blank or the lookup gives 0; in standard mode B.6
\* does the same with the destination, B.3 holds level 0 if and only if
\* the amount field is blank, and the sum of the totals is divided by 10;
\* no other automatic section holds level 0, and each automatic level is
\* the sub-value its total adds.
C30_automatic_zero_only_amount ==
    (fout # None /\ fout.esito.esito = "calcolato") =>
        LET e == fout.esito
            geo(area, lookup) == IF Strip(area) = <<>> \/ lookup = 0 THEN 1 ELSE lookup
            senza_importo == Strip(Replace(fin.importo, ",", ".")) = <<>>
        IN  /\ Len(e.sections_A_auto) = 2
            /\ e.sections_A_auto[2].name = "A.4 - Area geografica cliente"
            /\ e.sections_A_auto[2].level = geo(fin.area_cliente, fout.area_cliente)
            /\ \A i \in 1..2 :
                   /\ e.sections_A_auto[i].level >= 1
                   /\ e.sub_medias_A[i] = 10 * e.sections_A_auto[i].level
            /\ e.usa_solo_tabella_a => e.sections_B_auto = <<>> /\ e.sub_medias_B = <<>>
            /\ ~e.usa_solo_tabella_a =>
                   /\ Len(e.sections_B_auto) = 2
                   /\ e.sections_B_auto[1].name = "B.3 - Ammontare operazione"
                   /\ e.sections_B_auto[2].name = "B.6 - Area geografica destinazione"
                   /\ e.sections_B_auto[2].level =
                          geo(fin.area_destinazione, fout.area_destinazione)
                   /\ e.sections_B_auto[2].level >= 1
                   /\ (e.sections_B_auto[1].level = 0) <=> senza_importo
                   /\ \A i \in 1..2 : e.sub_medias_B[i] = 10 * e.sections_B_auto[i].level
                   /\ e.rischio_specifico =
                          PyRound(FDivInt(FAdd(e.total_A, e.total_B), 10), 2)

\* a standard-mode evaluation with a blank amount, a client area that is not
\* registered and no destination: B.3 adds 0, A.4 and B.6 add 1
C30_witness ==
    /\ fout # None
    /\ fout.esito.esito = "calcolato"
    /\ ~fout.esito.usa_solo_tabella_a
    /\ fin.importo = <<" ">>
    /\ fin.area_cliente = Ignoto
    /\ fout.area_cliente = 0
    /\ fin.area_destinazione = <<>>
    /\ fout.esito.sub_medias_A[2] = 10
    /\ fout.esito.sub_medias_B[1] = 0
    /\ fout.esito.sub_medias_B[2] = 10

====
